---- MODULE Spec2Model ----
(***************************************************************************)
(* Admission review and policy injection of the hub agent: the Nginx       *)
(* Ingress reviewer (CanReview, Review and its annotation diff), the       *)
(* Traefik IngressRoute reviewer with its managed Middleware, the          *)
(* ingress-class registry and the Policy Store they read; and the API-key  *)
(* handler that serves the compiled policy: NewHandler, getAPIkey and      *)
(* ServeHTTP.                                                              *)
(*                                                                         *)
(* Strings that the code parses or concatenates are sequences of tokens:   *)
(* the empty string is <<>>, concatenation is \o.  A policy name such as   *)
(* my-policy@test is <<"my-policy", "@", "test">>.                         *)
(***************************************************************************)
EXTENDS Integers, Sequences, FiniteSets, TLC

VARIABLES
    ar,              \* the admission request: kind and the raw object under review
    policies,        \* Policy Store: canonical policy name -> config, or NotFound
    ingressClasses,  \* class registry: controllers by class name, default controller
    pc,              \* "submitted": request not reviewed yet; "reviewed": rv holds Review's answer
    rv,              \* what Review returned for ar: [err, patch]
    cr,              \* what CanReview returned for ar: [called, ok, err]
    applied,         \* ar.object is the previous review's patch applied, store unchanged since
    middlewares,     \* Traefik Middleware resources of the cluster, by namespace and name
    naming,          \* two policy identities and the Middleware names derived for them
    akConfig,        \* the apikey.Config handed to NewHandler
    akHandler,       \* what NewHandler returned: the Handler's fields, or its error
    akRequest,       \* the HTTP request the handler is serving
    akLookup,        \* what getAPIkey returned to ServeHTTP for akRequest: [err, apiKey]
    akResponse,      \* the ResponseWriter: status, headers and body written so far
    calls,           \* the NginxIngress.Review calls in progress: position and locals of each
    acmeSync,        \* the IngressRoute last handed to syncIngressRoute, and whether it still stands
    secrets,         \* Secrets of namespace ns by name: labels and annotations the ACME controller reads
    issuerCalls,     \* the CertificateRequests the last sync handed to the issuer
    portal,          \* the APIPortal served: its gateway's collections and APIs
    portalEnv,       \* what the platform and the OpenAPI spec endpoint answer
    portalReq,       \* the request the PortalAPI router received
    portalResp,      \* what the handler wrote to its ResponseWriter
    platformCalls    \* the calls the handler made to the PlatformClient

reviewVars == <<ar, policies, ingressClasses, pc, rv, cr, applied, middlewares>>

namingVars == <<naming>>

apikeyVars == <<akConfig, akHandler, akRequest, akLookup, akResponse>>

concVars == <<calls>>

acmeVars == <<acmeSync, secrets, issuerCalls>>

portalVars == <<portal, portalEnv, portalReq, portalResp, platformCalls>>

vars == <<reviewVars, namingVars, apikeyVars, concVars, acmeVars, portalVars>>

\* ---------------------------------------------------------------- bounds
\* Longest user-authored snippet text, in tokens.
MaxUserLen == 1

\* ------------------------------------------------------- string constants
AnnotationNeoAuth == "neo.traefik.io/access-control-policy"
annotationIngressClass == "kubernetes.io/ingress.class"
defaultAnnotationNginx == <<"nginx">>
ControllerTypeNginxOfficial == <<"nginx.org/ingress-controller">>
ControllerTypeNginxCommunity == <<"k8s.io/ingress-nginx">>
ControllerTypeTraefik == <<"traefik.io/ingress-controller">>

AuthURLKey == "nginx.ingress.kubernetes.io/auth-url"
ConfigurationSnippetKey == "nginx.ingress.kubernetes.io/configuration-snippet"
ServerSnippetsKey == "nginx.org/server-snippets"
LocationSnippetsKey == "nginx.org/location-snippets"
CustomKey == "custom-annotation"

ManagedKeys == {AuthURLKey, ConfigurationSnippetKey, ServerSnippetsKey, LocationSnippetsKey}
SnippetKeys == {ConfigurationSnippetKey, ServerSnippetsKey, LocationSnippetsKey}

hubSnippetTokenStart == "##hub-snippet-start"
hubSnippetTokenEnd == "##hub-snippet-end"

\* ------------------------------------------------------------ Go map of strings
\* map[string]string: a nil map reads like an empty one and panics on write.
EmptyKV == [x \in {} |-> <<>>]

NilMap == [isNil |-> TRUE, kv |-> EmptyKV]

\* anno[k]: the value, or the empty string when the key is absent.
Get(anno, k) == IF k \in DOMAIN anno.kv THEN anno.kv[k] ELSE <<>>

Has(anno, k) == k \in DOMAIN anno.kv

\* anno[k] = v on a non-nil map.
Put(anno, k, v) ==
    [isNil |-> FALSE,
     kv |-> [x \in (DOMAIN anno.kv) \cup {k} |-> IF x = k THEN v ELSE anno.kv[x]]]

\* delete(anno, k)
Delete(anno, k) ==
    [anno EXCEPT !.kv = [x \in (DOMAIN anno.kv) \ {k} |-> anno.kv[x]]]

\* ------------------------------------------------------------ policy identity
\* Number of "@" separators in a policy name.
RECURSIVE CountAt(_)
CountAt(s) ==
    IF s = <<>> THEN 0
    ELSE (IF Head(s) = "@" THEN 1 ELSE 0) + CountAt(Tail(s))

\* Index of the first "@" of s, or Len(s) + 1 when there is none.
RECURSIVE FirstAt(_, _)
FirstAt(s, i) ==
    IF i > Len(s) THEN i
    ELSE IF s[i] = "@" THEN i ELSE FirstAt(s, i + 1)

\* acp.CanonicalName(polName, defaultNamespace): name@namespace, the namespace
\* taken from the name when it has one, else the object's, else "default".
CanonicalName(polName, defaultNamespace) ==
    IF CountAt(polName) > 1
    THEN [err |-> "invalid ACP name", name |-> <<>>]
    ELSE LET at == FirstAt(polName, 1)
             nm == SubSeq(polName, 1, at - 1)
             rest == SubSeq(polName, at + 1, Len(polName))
             ns == IF rest # <<>> THEN rest
                   ELSE IF defaultNamespace # <<>> THEN defaultNamespace
                   ELSE <<"default">>
         IN [err |-> "", name |-> nm \o <<"@">> \o ns]

\* ------------------------------------------------------------ Policy Store
NotFound == [type |-> "notFound", fwdHeaders |-> <<>>, strip |-> FALSE]

\* PolicyGetter.GetConfig(canonicalName): the config, or an error when the
\* store holds no such policy.
GetConfig(store, canonicalName) ==
    IF canonicalName \in DOMAIN store /\ store[canonicalName] # NotFound
    THEN [err |-> "", cfg |-> store[canonicalName]]
    ELSE [err |-> "policy not found", cfg |-> NotFound]

\* ------------------------------------------------------------ Nginx compiler
\* nginxSnippets{}: the zero value.
zeroSnippets ==
    [AuthURL |-> <<>>, ConfigurationSnippet |-> <<>>,
     ServerSnippets |-> <<>>, LocationSnippets |-> <<>>]

\* Headers the auth server's answer must hand on to the upstream: the
\* forwarding rules, then Authorization when credentials are stripped.
headerToForward(cfg) ==
    IF cfg.type \in {"jwt", "basicAuth", "digestAuth", "apiKey"}
    THEN [err |-> "",
          hdrs |-> cfg.fwdHeaders \o (IF cfg.strip THEN <<"Authorization">> ELSE <<>>)]
    ELSE [err |-> "unsupported ACP type", hdrs |-> <<>>]

RECURSIVE generateLocationSnippet(_)
generateLocationSnippet(hdrs) ==
    IF hdrs = <<>> THEN <<>>
    ELSE <<"auth_request_set", Head(hdrs)>> \o generateLocationSnippet(Tail(hdrs))

\* An empty snippet stays empty; anything else sits between the hub markers.
wrapHubSnippet(s) ==
    IF s = <<>> THEN <<>>
    ELSE <<hubSnippetTokenStart>> \o s \o <<hubSnippetTokenEnd>>

genSnippets(polName, polCfg, agentAddr) ==
    LET h == headerToForward(polCfg) IN
    IF h.err # "" THEN [err |-> h.err, snippets |-> zeroSnippets]
    ELSE LET locSnip == generateLocationSnippet(h.hdrs) IN
         [err |-> "",
          snippets |->
            [AuthURL |-> agentAddr \o <<"/">> \o polName,
             ConfigurationSnippet |-> wrapHubSnippet(locSnip),
             ServerSnippets |-> wrapHubSnippet(locSnip),
             LocationSnippets |-> wrapHubSnippet(locSnip)]]

\* Largest index of token t in s, 0 when s has none.
RECURSIVE LastIndex(_, _, _)
LastIndex(s, t, i) ==
    IF i = 0 THEN 0
    ELSE IF s[i] = t THEN i ELSE LastIndex(s, t, i - 1)

\* The agent's block of oldSnippet (from its start marker to the last end
\* marker after it) is replaced by hubSnippet; with no block, hubSnippet is
\* appended to the user's text.
mergeSnippet(oldSnippet, hubSnippet) ==
    LET e == LastIndex(oldSnippet, hubSnippetTokenEnd, Len(oldSnippet))
        b == IF e = 0 THEN 0 ELSE LastIndex(oldSnippet, hubSnippetTokenStart, e - 1)
    IN IF b > 0
       THEN SubSeq(oldSnippet, 1, b - 1) \o hubSnippet
                \o SubSeq(oldSnippet, e + 1, Len(oldSnippet))
       ELSE oldSnippet \o hubSnippet

mergeSnippets(snippets, anno) ==
    [AuthURL |-> snippets.AuthURL,
     ConfigurationSnippet |->
        mergeSnippet(Get(anno, ConfigurationSnippetKey), snippets.ConfigurationSnippet),
     ServerSnippets |-> mergeSnippet(Get(anno, ServerSnippetsKey), snippets.ServerSnippets),
     LocationSnippets |->
        mergeSnippet(Get(anno, LocationSnippetsKey), snippets.LocationSnippets)]

\* ------------------------------------------------------------ Nginx reviewer
\* Faulty variant: the location snippets are not compared.
noPatchRequiredNoLocation(anno, snippets) ==
    /\ Get(anno, AuthURLKey) = snippets.AuthURL
    /\ Get(anno, ConfigurationSnippetKey) = snippets.ConfigurationSnippet
    /\ Get(anno, ServerSnippetsKey) = snippets.ServerSnippets

\* Faulty variant: the comparison is skipped, every review patches.
noPatchRequiredNever(anno, snippets) == FALSE

noPatchRequired(anno, snippets) ==
    /\ Get(anno, AuthURLKey) = snippets.AuthURL
    /\ Get(anno, ConfigurationSnippetKey) = snippets.ConfigurationSnippet
    /\ Get(anno, ServerSnippetsKey) = snippets.ServerSnippets
    /\ Get(anno, LocationSnippetsKey) = snippets.LocationSnippets

DeleteIfEmpty(anno, k) == IF Get(anno, k) = <<>> THEN Delete(anno, k) ELSE anno

\* Faulty variant: an empty auth-url stays in the map.
clearEmptyAnnotationsKeepAuthURL(anno) ==
    DeleteIfEmpty(DeleteIfEmpty(DeleteIfEmpty(anno, ServerSnippetsKey),
        LocationSnippetsKey), ConfigurationSnippetKey)

\* Faulty variant: every annotation with an empty value is deleted.
clearEmptyAnnotationsAnyKey(anno) ==
    [anno EXCEPT !.kv = [x \in {k \in DOMAIN anno.kv : anno.kv[k] # <<>>} |-> anno.kv[x]]]

clearEmptyAnnotations(anno) ==
    DeleteIfEmpty(DeleteIfEmpty(DeleteIfEmpty(DeleteIfEmpty(anno, ServerSnippetsKey),
        LocationSnippetsKey), AuthURLKey), ConfigurationSnippetKey)

\* Faulty variant: the location snippets are not written.
setAnnotationsSkipLocation(anno, snippets) ==
    IF anno.isNil THEN [panic |-> TRUE, anno |-> anno]
    ELSE [panic |-> FALSE,
          anno |-> clearEmptyAnnotations(
              Put(Put(Put(anno, AuthURLKey, snippets.AuthURL),
                  ConfigurationSnippetKey, snippets.ConfigurationSnippet),
                  ServerSnippetsKey, snippets.ServerSnippets))]

\* Writing into a nil map panics: the result then has panic set.
setAnnotations(anno, snippets) ==
    IF anno.isNil THEN [panic |-> TRUE, anno |-> anno]
    ELSE [panic |-> FALSE,
          anno |-> clearEmptyAnnotations(
              Put(Put(Put(Put(anno, AuthURLKey, snippets.AuthURL),
                  ConfigurationSnippetKey, snippets.ConfigurationSnippet),
                  ServerSnippetsKey, snippets.ServerSnippets),
                  LocationSnippetsKey, snippets.LocationSnippets))]

\* The reviewer's agentAddress field, set once by NewNginxIngress.
agentAddress == <<"http://hub-agent">>

\* Faulty variant: one operation per changed key.
ingressPatchPerKey(anno) ==
    <<[op |-> "remove", path |-> "/metadata/annotations/auth-url", value |-> anno.kv],
      [op |-> "add", path |-> "/metadata/annotations/auth-url", value |-> anno.kv]>>

\* The patch of Review: one whole-field replace of the annotation map.
ingressPatch(anno) ==
    <<[op |-> "replace", path |-> "/metadata/annotations", value |-> anno.kv]>>

Failed(msg) == [err |-> msg, patch |-> <<>>, panic |-> FALSE]

NoPatch == [err |-> "", patch |-> <<>>, panic |-> FALSE]

\* NginxIngress.Review(ctx, ar) against the Policy Store contents `store`.
NginxIngressReview(req, store) ==
    LET ing == req.object IN
    IF ~ing.parseable THEN Failed("unmarshal reviewed ingress metadata")
    ELSE
    LET anno == ing.annotations
        polName == Get(anno, AnnotationNeoAuth)
        cn == CanonicalName(polName, ing.namespace)
        pg == GetConfig(store, cn.name)
        gs == genSnippets(cn.name, pg.cfg, agentAddress)
    IN  IF polName # <<>> /\ cn.err # "" THEN Failed(cn.err)
        ELSE IF polName # <<>> /\ pg.err # "" THEN Failed(pg.err)
        ELSE IF polName # <<>> /\ gs.err # "" THEN Failed(gs.err)
        ELSE
        LET snippets == mergeSnippets(IF polName = <<>> THEN zeroSnippets ELSE gs.snippets,
                                      anno)
        IN  IF noPatchRequired(anno, snippets) THEN NoPatch
            ELSE LET set == setAnnotations(anno, snippets) IN
                 IF set.panic
                 THEN [err |-> "", patch |-> <<>>, panic |-> TRUE]
                 ELSE [err |-> "", patch |-> ingressPatch(set.anno), panic |-> FALSE]

\* ------------------------------------------------------------ Traefik reviewer
\* Name of the Middleware the agent manages for a policy: "zz-" and the
\* canonical name with its "@" turned into "-".
middlewareName(canonicalPolName) ==
    <<"zz", "-">> \o [i \in 1..Len(canonicalPolName) |->
                        IF canonicalPolName[i] = "@" THEN "-" ELSE canonicalPolName[i]]

MiddlewareRef(name, namespace) == [Name |-> name, Namespace |-> namespace]

\* The ACP annotation of the previous object, "" on a create.
oldIngressRoutePolicyName(old) ==
    IF ~old.present THEN <<>> ELSE Get(old.annotations, AnnotationNeoAuth)

\* Faulty variant: a Middleware that exists already is left as it is.
SetupCreateOnly(mws, store, canonicalPolName, namespace, clientFails) ==
    LET pg == GetConfig(store, canonicalPolName)
        h == headerToForward(pg.cfg)
        name == middlewareName(canonicalPolName)
        mw == [address |-> agentAddress \o <<"/">> \o canonicalPolName,
               authResponseHeaders |-> h.hdrs]
        key == <<namespace, name>>
    IN  IF pg.err # "" THEN [err |-> pg.err, name |-> name, mws |-> mws]
        ELSE IF h.err # "" THEN [err |-> h.err, name |-> name, mws |-> mws]
        ELSE IF clientFails THEN [err |-> "middleware client", name |-> name, mws |-> mws]
        ELSE [err |-> "", name |-> name,
              mws |-> [k \in (DOMAIN mws) \cup {key} |->
                          IF k \in DOMAIN mws THEN mws[k] ELSE mw]]

\* FwdAuthMiddlewares.Setup: create or update the policy's Middleware in the
\* namespace. clientFails is the outcome of the Traefik client's call.
Setup(mws, store, canonicalPolName, namespace, clientFails) ==
    LET pg == GetConfig(store, canonicalPolName)
        h == headerToForward(pg.cfg)
        name == middlewareName(canonicalPolName)
        mw == [address |-> agentAddress \o <<"/">> \o canonicalPolName,
               authResponseHeaders |-> h.hdrs]
        key == <<namespace, name>>
    IN  IF pg.err # "" THEN [err |-> pg.err, name |-> name, mws |-> mws]
        ELSE IF h.err # "" THEN [err |-> h.err, name |-> name, mws |-> mws]
        ELSE IF clientFails THEN [err |-> "middleware client", name |-> name, mws |-> mws]
        ELSE [err |-> "", name |-> name,
              mws |-> [k \in (DOMAIN mws) \cup {key} |-> IF k = key THEN mw ELSE mws[k]]]

HasRef(mdlwrs, ref) == \E j \in 1..Len(mdlwrs) : mdlwrs[j] = ref

RECURSIVE WithoutRef(_, _)
WithoutRef(mdlwrs, ref) ==
    IF mdlwrs = <<>> THEN <<>>
    ELSE IF Head(mdlwrs) = ref THEN WithoutRef(Tail(mdlwrs), ref)
    ELSE <<Head(mdlwrs)>> \o WithoutRef(Tail(mdlwrs), ref)

\* Faulty variant: the previous policy's reference is dropped and the new one
\* goes to the end of the list.
updateMiddlewaresMoveToEnd(mdlwrs, hasOld, oldRef, newRef) ==
    IF hasOld /\ HasRef(mdlwrs, oldRef)
    THEN Append(WithoutRef(mdlwrs, oldRef), newRef)
    ELSE Append(mdlwrs, newRef)

\* Faulty variant: a new reference goes to the front of the list.
updateMiddlewaresPrepend(mdlwrs, hasOld, oldRef, newRef) ==
    IF hasOld /\ HasRef(mdlwrs, oldRef)
    THEN [j \in 1..Len(mdlwrs) |-> IF mdlwrs[j] = oldRef THEN newRef ELSE mdlwrs[j]]
    ELSE <<newRef>> \o mdlwrs

\* One route's references with a policy set: the previous policy's reference
\* is swapped in place for the new one; without one, the new is appended.
updateMiddlewares(mdlwrs, hasOld, oldRef, newRef) ==
    IF hasOld /\ HasRef(mdlwrs, oldRef)
    THEN [j \in 1..Len(mdlwrs) |-> IF mdlwrs[j] = oldRef THEN newRef ELSE mdlwrs[j]]
    ELSE Append(mdlwrs, newRef)

\* The patch of Review: one whole-field replace of the route list.
ingressRoutePatch(routes) ==
    <<[op |-> "replace", path |-> "/spec/routes", value |-> routes]>>

\* TraefikIngressRoute.Review(ctx, ar). The result carries the Middleware
\* store as the review leaves it.
TraefikIngressRouteReview(req, store, mws, clientFails) ==
    LET ingRoute == req.object
        unchanged(r) == [err |-> r.err, patch |-> r.patch, panic |-> r.panic, mws |-> mws]
    IN
    IF ~ingRoute.parseable THEN unchanged(Failed("unmarshal reviewed ingress route"))
    ELSE
    LET polName == Get(ingRoute.annotations, AnnotationNeoAuth)
        prevPolName == oldIngressRoutePolicyName(req.oldObject)
        prevCn == CanonicalName(prevPolName, ingRoute.namespace)
        cn == CanonicalName(polName, ingRoute.namespace)
        oldRef == MiddlewareRef(middlewareName(prevCn.name), ingRoute.namespace)
        routes == ingRoute.routes
    IN  IF prevPolName = <<>> /\ polName = <<>> THEN unchanged(NoPatch)
        ELSE IF prevPolName # <<>> /\ prevCn.err # "" THEN unchanged(Failed(prevCn.err))
        ELSE IF polName = <<>>
        THEN LET cleared == [i \in 1..Len(routes) |->
                    [routes[i] EXCEPT !.Middlewares = WithoutRef(@, oldRef)]]
             IN  IF cleared = routes THEN unchanged(NoPatch)
                 ELSE [err |-> "", patch |-> ingressRoutePatch(cleared), panic |-> FALSE,
                       mws |-> mws]
        ELSE IF cn.err # "" THEN unchanged(Failed(cn.err))
        ELSE
        LET set == Setup(mws, store, cn.name, ingRoute.namespace, clientFails)
            newRef == MiddlewareRef(set.name, ingRoute.namespace)
            updated == [i \in 1..Len(routes) |->
                [routes[i] EXCEPT !.Middlewares =
                    updateMiddlewares(@, prevPolName # <<>>, oldRef, newRef)]]
        IN  IF set.err # "" THEN unchanged(Failed(set.err))
            ELSE IF updated = routes
            THEN [err |-> "", patch |-> <<>>, panic |-> FALSE, mws |-> set.mws]
            ELSE [err |-> "", patch |-> ingressRoutePatch(updated), panic |-> FALSE,
                  mws |-> set.mws]

\* ------------------------------------------------------------ class resolution
GVK(g, v, k) == [Group |-> g, Version |-> v, Kind |-> k]

isNetV1Ingress(resource) == resource = GVK("networking.k8s.io", "v1", "Ingress")

isNetV1Beta1Ingress(resource) == resource = GVK("networking.k8s.io", "v1beta1", "Ingress")

isExtV1Beta1Ingress(resource) == resource = GVK("extensions", "v1beta1", "Ingress")

isTraefikV1Alpha1IngressRoute(resource) ==
    resource = GVK("traefik.containo.us", "v1alpha1", "IngressRoute")

\* parseIngressClass(raw): spec.ingressClassName and the legacy class annotation.
parseIngressClass(obj) ==
    IF ~obj.parseable
    THEN [err |-> "invalid object", ingClassName |-> <<>>, ingClassAnno |-> <<>>]
    ELSE [err |-> "", ingClassName |-> obj.ingressClassName,
          ingClassAnno |-> Get(obj.annotations, annotationIngressClass)]

\* IngressClasses.GetController(name): "" for a class the registry does not know.
GetController(reg, name) ==
    IF name \in DOMAIN reg.controllers THEN reg.controllers[name] ELSE <<>>

\* IngressClasses.GetDefaultController()
GetDefaultController(reg) ==
    IF reg.defaultErr THEN [err |-> "multiple default ingress classes", ctrlr |-> <<>>]
    ELSE [err |-> "", ctrlr |-> reg.defaultCtrlr]

isNginx(ctrlr) ==
    ctrlr = ControllerTypeNginxOfficial \/ ctrlr = ControllerTypeNginxCommunity

\* Faulty variants of CanReview: the kind check dropped; the annotation
\* consulted before the class name; the default lookup's error returned
\* together with a verdict.
NginxIngressCanReviewAnyKind(req, reg) ==
    LET pic == parseIngressClass(req.object)
        dc == GetDefaultController(reg)
    IN  IF pic.err # "" THEN [ok |-> FALSE, err |-> "parse ingress class"]
        ELSE IF dc.err # "" THEN [ok |-> FALSE, err |-> "get default controller"]
        ELSE IF pic.ingClassName # <<>>
             THEN [ok |-> isNginx(GetController(reg, pic.ingClassName)), err |-> ""]
        ELSE IF pic.ingClassAnno # <<>>
             THEN [ok |-> pic.ingClassAnno = defaultAnnotationNginx
                            \/ isNginx(GetController(reg, pic.ingClassAnno)),
                   err |-> ""]
        ELSE [ok |-> isNginx(dc.ctrlr), err |-> ""]

NginxIngressCanReviewAnnoFirst(req, reg) ==
    LET resource == req.kind
        pic == parseIngressClass(req.object)
        dc == GetDefaultController(reg)
    IN  IF ~isNetV1Ingress(resource) /\ ~isNetV1Beta1Ingress(resource)
            /\ ~isExtV1Beta1Ingress(resource)
        THEN [ok |-> FALSE, err |-> ""]
        ELSE IF pic.err # "" THEN [ok |-> FALSE, err |-> "parse ingress class"]
        ELSE IF dc.err # "" THEN [ok |-> FALSE, err |-> "get default controller"]
        ELSE IF pic.ingClassAnno # <<>>
             THEN [ok |-> pic.ingClassAnno = defaultAnnotationNginx
                            \/ isNginx(GetController(reg, pic.ingClassAnno)),
                   err |-> ""]
        ELSE IF pic.ingClassName # <<>>
             THEN [ok |-> isNginx(GetController(reg, pic.ingClassName)), err |-> ""]
        ELSE [ok |-> isNginx(dc.ctrlr), err |-> ""]

NginxIngressCanReviewVerdictWithError(req, reg) ==
    LET resource == req.kind
        pic == parseIngressClass(req.object)
        dc == GetDefaultController(reg)
    IN  IF ~isNetV1Ingress(resource) /\ ~isNetV1Beta1Ingress(resource)
            /\ ~isExtV1Beta1Ingress(resource)
        THEN [ok |-> FALSE, err |-> ""]
        ELSE IF pic.err # "" THEN [ok |-> FALSE, err |-> "parse ingress class"]
        ELSE IF pic.ingClassName # <<>>
             THEN [ok |-> isNginx(GetController(reg, pic.ingClassName)),
                   err |-> IF dc.err # "" THEN "get default controller" ELSE ""]
        ELSE IF pic.ingClassAnno # <<>>
             THEN [ok |-> pic.ingClassAnno = defaultAnnotationNginx
                            \/ isNginx(GetController(reg, pic.ingClassAnno)),
                   err |-> IF dc.err # "" THEN "get default controller" ELSE ""]
        ELSE [ok |-> isNginx(dc.ctrlr),
              err |-> IF dc.err # "" THEN "get default controller" ELSE ""]

\* Faulty variant: the default controller is looked up only when neither the
\* class name nor the annotation decides.
NginxIngressCanReviewLazyDefault(req, reg) ==
    LET resource == req.kind
        pic == parseIngressClass(req.object)
        dc == GetDefaultController(reg)
    IN  IF ~isNetV1Ingress(resource) /\ ~isNetV1Beta1Ingress(resource)
            /\ ~isExtV1Beta1Ingress(resource)
        THEN [ok |-> FALSE, err |-> ""]
        ELSE IF pic.err # "" THEN [ok |-> FALSE, err |-> "parse ingress class"]
        ELSE IF pic.ingClassName # <<>>
             THEN [ok |-> isNginx(GetController(reg, pic.ingClassName)), err |-> ""]
        ELSE IF pic.ingClassAnno # <<>>
             THEN [ok |-> pic.ingClassAnno = defaultAnnotationNginx
                            \/ isNginx(GetController(reg, pic.ingClassAnno)),
                   err |-> ""]
        ELSE IF dc.err # "" THEN [ok |-> FALSE, err |-> "get default controller"]
        ELSE [ok |-> isNginx(dc.ctrlr), err |-> ""]

\* NginxIngress.CanReview(ar) against the registry `reg`.
NginxIngressCanReview(req, reg) ==
    LET resource == req.kind
        pic == parseIngressClass(req.object)
        dc == GetDefaultController(reg)
    IN  IF ~isNetV1Ingress(resource) /\ ~isNetV1Beta1Ingress(resource)
            /\ ~isExtV1Beta1Ingress(resource)
        THEN [ok |-> FALSE, err |-> ""]
        ELSE IF pic.err # "" THEN [ok |-> FALSE, err |-> "parse ingress class"]
        ELSE IF dc.err # "" THEN [ok |-> FALSE, err |-> "get default controller"]
        ELSE IF pic.ingClassName # <<>>
             THEN [ok |-> isNginx(GetController(reg, pic.ingClassName)), err |-> ""]
        ELSE IF pic.ingClassAnno # <<>>
             THEN [ok |-> pic.ingClassAnno = defaultAnnotationNginx
                            \/ isNginx(GetController(reg, pic.ingClassAnno)),
                   err |-> ""]
        ELSE [ok |-> isNginx(dc.ctrlr), err |-> ""]

\* TraefikIngressRoute.CanReview(ar): the kind alone decides.
TraefikIngressRouteCanReview(req) ==
    [ok |-> isTraefikV1Alpha1IngressRoute(req.kind), err |-> ""]

\* ------------------------------------------------------------ API-key handler
\* Header values, cookie values, URIs and key values are token sequences,
\* <<>> the empty string; IDs, header and parameter names are plain strings.

\* sha3.ShakeSum256 of the candidate into 64 bytes, printed with %x.
Shake256Hex(apiKey) == <<"shake256">> \o apiKey

\* A Go map with string keys: nil, or the entries kv.
NilStringMap == [isNil |-> TRUE, kv |-> [x \in {} |-> ""]]

StringMap(f) == [isNil |-> FALSE, kv |-> f]

EmptyKeys == [v \in {} |-> [ID |-> "", Metadata |-> [x \in {} |-> ""]]]

\* The nil *Handler next to an error.
NilHandler(msg) ==
    [isNil |-> TRUE, err |-> msg, name |-> "", header |-> "", query |-> "", cookie |-> "",
     keys |-> EmptyKeys, fwdHeaders |-> NilStringMap]

\* Faulty variant: an "_id" entry of the configured metadata is kept.
RECURSIVE rangeKeysKeepConfiguredID(_, _, _, _)
rangeKeysKeepConfiguredID(cfgKeys, i, keys, uniqIDs) ==
    IF i > Len(cfgKeys) THEN [err |-> "", keys |-> keys]
    ELSE LET k == cfgKeys[i] IN
         IF k.ID = "" \/ k.Value = <<>>
         THEN [err |-> "empty ID or value", keys |-> EmptyKeys]
         ELSE IF k.ID \in uniqIDs
         THEN [err |-> "duplicated ID", keys |-> EmptyKeys]
         ELSE LET md == [mk \in (DOMAIN k.Metadata.kv) \cup {"_id"} |->
                            IF mk \in DOMAIN k.Metadata.kv THEN k.Metadata.kv[mk] ELSE k.ID]
                  entry == [ID |-> k.ID, Metadata |-> md]
              IN  rangeKeysKeepConfiguredID(cfgKeys, i + 1,
                            [v \in (DOMAIN keys) \cup {k.Value} |->
                                IF v = k.Value THEN entry ELSE keys[v]],
                            uniqIDs \cup {k.ID})

\* Faulty variant: the first entry of a value stays in the table.
RECURSIVE rangeKeysKeepFirst(_, _, _, _)
rangeKeysKeepFirst(cfgKeys, i, keys, uniqIDs) ==
    IF i > Len(cfgKeys) THEN [err |-> "", keys |-> keys]
    ELSE LET k == cfgKeys[i] IN
         IF k.ID = "" \/ k.Value = <<>>
         THEN [err |-> "empty ID or value", keys |-> EmptyKeys]
         ELSE IF k.ID \in uniqIDs
         THEN [err |-> "duplicated ID", keys |-> EmptyKeys]
         ELSE LET md == [mk \in (DOMAIN k.Metadata.kv) \cup {"_id"} |->
                            IF mk = "_id" THEN k.ID ELSE k.Metadata.kv[mk]]
                  entry == [ID |-> k.ID, Metadata |-> md]
              IN  rangeKeysKeepFirst(cfgKeys, i + 1,
                            [v \in (DOMAIN keys) \cup {k.Value} |->
                                IF v \in DOMAIN keys THEN keys[v] ELSE entry],
                            uniqIDs \cup {k.ID})

\* The range over cfg.Keys from entry i on, with the table and the IDs seen
\* so far.
RECURSIVE rangeKeys(_, _, _, _)
rangeKeys(cfgKeys, i, keys, uniqIDs) ==
    IF i > Len(cfgKeys) THEN [err |-> "", keys |-> keys]
    ELSE LET k == cfgKeys[i] IN
         IF k.ID = "" \/ k.Value = <<>>
         THEN [err |-> "empty ID or value", keys |-> EmptyKeys]
         ELSE IF k.ID \in uniqIDs
         THEN [err |-> "duplicated ID", keys |-> EmptyKeys]
         ELSE LET md == [mk \in (DOMAIN k.Metadata.kv) \cup {"_id"} |->
                            IF mk = "_id" THEN k.ID ELSE k.Metadata.kv[mk]]
                  entry == [ID |-> k.ID, Metadata |-> md]
              IN  rangeKeys(cfgKeys, i + 1,
                            [v \in (DOMAIN keys) \cup {k.Value} |->
                                IF v = k.Value THEN entry ELSE keys[v]],
                            uniqIDs \cup {k.ID})

\* Faulty variant: a configuration with no lookup location is accepted.
NewHandlerNoLocation(cfg, name) ==
    LET r == rangeKeys(cfg.Keys, 1, EmptyKeys, {}) IN
    IF r.err # "" THEN NilHandler(r.err)
    ELSE [isNil |-> FALSE, err |-> "", name |-> name,
          header |-> cfg.Header, query |-> cfg.Query, cookie |-> cfg.Cookie,
          keys |-> r.keys, fwdHeaders |-> cfg.ForwardHeaders]

\* NewHandler(cfg, name)
NewHandler(cfg, name) ==
    IF cfg.Header = "" /\ cfg.Query = "" /\ cfg.Cookie = ""
    THEN NilHandler("at least one of header, query or cookie is required")
    ELSE LET r == rangeKeys(cfg.Keys, 1, EmptyKeys, {}) IN
         IF r.err # "" THEN NilHandler(r.err)
         ELSE [isNil |-> FALSE, err |-> "", name |-> name,
               header |-> cfg.Header, query |-> cfg.Query, cookie |-> cfg.Cookie,
               keys |-> r.keys, fwdHeaders |-> cfg.ForwardHeaders]

\* http.Header.Get(name): "" for a header the request does not carry.
HeaderGet(hdr, name) == IF name \in DOMAIN hdr THEN hdr[name] ELSE <<>>

\* Index of the first token t of s, Len(s) + 1 when s has none.
RECURSIVE IndexOf(_, _, _)
IndexOf(s, t, i) ==
    IF i > Len(s) THEN i
    ELSE IF s[i] = t THEN i ELSE IndexOf(s, t, i + 1)

\* url.Parse(uri): the path ahead of "?" and the raw query after it; an
\* invalid escape in the path is an error.
urlParse(uri) ==
    LET q == IndexOf(uri, "?", 1)
        path == SubSeq(uri, 1, q - 1)
    IN  IF \E i \in 1..Len(path) : path[i] = "%zz"
        THEN [err |-> "invalid URL escape", rawQuery |-> <<>>]
        ELSE [err |-> "", rawQuery |-> SubSeq(uri, q + 1, Len(uri))]

\* url.Values.Get(name) on the parsed raw query name=value&name=value: the
\* first value of the parameter, "" when it has none.
RECURSIVE queryGet(_, _)
queryGet(rawQuery, name) ==
    IF Len(rawQuery) < 3 THEN <<>>
    ELSE IF rawQuery[1] = name /\ rawQuery[2] = "="
         THEN <<rawQuery[3]>>
         ELSE queryGet(SubSeq(rawQuery, 5, Len(rawQuery)), name)

\* originalURI(hdr)
originalURI(hdr) ==
    IF HeaderGet(hdr, "X-Forwarded-Uri") # <<>>
    THEN HeaderGet(hdr, "X-Forwarded-Uri")
    ELSE HeaderGet(hdr, "X-Original-Url")

MissingAPIKey == [err |-> "missing API key", apiKey |-> <<>>]

\* The cookie step of getAPIkey and its final error.
getAPIkeyFromCookie(h, req) ==
    IF h.cookie # "" /\ h.cookie \in DOMAIN req.Cookies /\ req.Cookies[h.cookie] # <<>>
    THEN [err |-> "", apiKey |-> req.Cookies[h.cookie]]
    ELSE MissingAPIKey

\* Faulty variant: an original URI that does not parse is passed over.
getAPIkeyFromQueryIgnoreParseError(h, req) ==
    LET uri == originalURI(req.Header)
        parsedURI == urlParse(uri)
        qry == queryGet(parsedURI.rawQuery, h.query)
    IN  IF h.query # "" /\ uri # <<>> /\ parsedURI.err = "" /\ qry # <<>>
        THEN [err |-> "", apiKey |-> qry]
        ELSE getAPIkeyFromCookie(h, req)

\* The query step of getAPIkey, then the cookie step.
getAPIkeyFromQuery(h, req) ==
    LET uri == originalURI(req.Header)
        parsedURI == urlParse(uri)
        qry == queryGet(parsedURI.rawQuery, h.query)
    IN  IF h.query # "" /\ uri # <<>>
        THEN IF parsedURI.err # "" THEN [err |-> parsedURI.err, apiKey |-> <<>>]
             ELSE IF qry # <<>> THEN [err |-> "", apiKey |-> qry]
             ELSE getAPIkeyFromCookie(h, req)
        ELSE getAPIkeyFromCookie(h, req)

\* Faulty variant: the cookie is looked at ahead of the header and the query.
getAPIkeyCookieFirst(h, req) ==
    IF getAPIkeyFromCookie(h, req).err = "" THEN getAPIkeyFromCookie(h, req)
    ELSE IF h.header # "" /\ HeaderGet(req.Header, h.header) # <<>>
    THEN [err |-> "", apiKey |-> HeaderGet(req.Header, h.header)]
    ELSE getAPIkeyFromQuery(h, req)

\* Handler.getAPIkey(req)
getAPIkey(h, req) ==
    IF h.header # "" /\ HeaderGet(req.Header, h.header) # <<>>
    THEN [err |-> "", apiKey |-> HeaderGet(req.Header, h.header)]
    ELSE getAPIkeyFromQuery(h, req)

\* A forwarding rule whose claim expression cannot be evaluated.
InvalidClaim == "invalid-claim"

\* expr.PluckClaims(claimNames, claims): per header of the rules, the values
\* of the claim it names; a header whose claim the metadata lacks is left out.
PluckClaims(claimNames, claims) ==
    IF \E hdrName \in DOMAIN claimNames : claimNames[hdrName] = InvalidClaim
    THEN [err |-> "pluck claims", hdrs |-> [x \in {} |-> <<>>]]
    ELSE [err |-> "",
          hdrs |-> [hdrName \in {x \in DOMAIN claimNames : claimNames[x] \in DOMAIN claims} |->
                       <<claims[claimNames[hdrName]]>>]]

NoHeaders == [x \in {} |-> <<>>]

\* rw.WriteHeader(status) with the headers set so far and nothing written.
WriteHeader(status, hdrs) == [status |-> status, header |-> hdrs, body |-> ""]

\* http.Error(rw, text, code): a plain-text body under the status.
httpError(text, code) ==
    [status |-> code,
     header |-> [x \in {"Content-Type", "X-Content-Type-Options"} |->
                    IF x = "Content-Type" THEN <<"text/plain; charset=utf-8">>
                    ELSE <<"nosniff">>],
     body |-> text]

StatusOK == 200
StatusUnauthorized == 401
StatusInternalServerError == 500

\* Faulty variant: a failure to derive the headers is answered as an
\* authentication failure.
ServeHTTPPluckErrorUnauthorized(h, req) ==
    LET got == getAPIkey(h, req)
        hash == Shake256Hex(got.apiKey)
    IN  IF got.err # "" THEN WriteHeader(StatusUnauthorized, NoHeaders)
        ELSE IF hash \notin DOMAIN h.keys THEN WriteHeader(StatusUnauthorized, NoHeaders)
        ELSE IF h.fwdHeaders.isNil THEN WriteHeader(StatusOK, NoHeaders)
        ELSE LET p == PluckClaims(h.fwdHeaders.kv, h.keys[hash].Metadata) IN
             IF p.err # "" THEN WriteHeader(StatusUnauthorized, NoHeaders)
             ELSE WriteHeader(StatusOK, p.hdrs)

\* Faulty variant: when the candidate matches no key, the cookie is tried.
ServeHTTPFallback(h, req) ==
    LET got == getAPIkey(h, req)
        hash == Shake256Hex(got.apiKey)
        fromCookie == getAPIkeyFromCookie(h, req)
    IN  IF got.err # "" THEN WriteHeader(StatusUnauthorized, NoHeaders)
        ELSE IF hash \notin DOMAIN h.keys
        THEN IF fromCookie.err = "" /\ Shake256Hex(fromCookie.apiKey) \in DOMAIN h.keys
             THEN WriteHeader(StatusOK, NoHeaders)
             ELSE WriteHeader(StatusUnauthorized, NoHeaders)
        ELSE IF h.fwdHeaders.isNil THEN WriteHeader(StatusOK, NoHeaders)
        ELSE LET p == PluckClaims(h.fwdHeaders.kv, h.keys[hash].Metadata) IN
             IF p.err # ""
             THEN httpError("Internal Server Error", StatusInternalServerError)
             ELSE WriteHeader(StatusOK, p.hdrs)

\* Faulty variant: a candidate that matches no key is let through.
ServeHTTPAcceptUnknown(h, req) ==
    LET got == getAPIkey(h, req)
        hash == Shake256Hex(got.apiKey)
    IN  IF got.err # "" THEN WriteHeader(StatusUnauthorized, NoHeaders)
        ELSE IF hash \notin DOMAIN h.keys THEN WriteHeader(StatusOK, NoHeaders)
        ELSE IF h.fwdHeaders.isNil THEN WriteHeader(StatusOK, NoHeaders)
        ELSE LET p == PluckClaims(h.fwdHeaders.kv, h.keys[hash].Metadata) IN
             IF p.err # ""
             THEN httpError("Internal Server Error", StatusInternalServerError)
             ELSE WriteHeader(StatusOK, p.hdrs)

\* Handler.ServeHTTP(rw, req): what the ResponseWriter holds on return.
ServeHTTP(h, req) ==
    LET got == getAPIkey(h, req)
        hash == Shake256Hex(got.apiKey)
    IN  IF got.err # "" THEN WriteHeader(StatusUnauthorized, NoHeaders)
        ELSE IF hash \notin DOMAIN h.keys THEN WriteHeader(StatusUnauthorized, NoHeaders)
        ELSE IF h.fwdHeaders.isNil THEN WriteHeader(StatusOK, NoHeaders)
        ELSE LET p == PluckClaims(h.fwdHeaders.kv, h.keys[hash].Metadata) IN
             IF p.err # ""
             THEN httpError("Internal Server Error", StatusInternalServerError)
             ELSE WriteHeader(StatusOK, p.hdrs)

\* ------------------------------------------------------------ ACME certificates
\* Domain names are strings; a rule and a secret's domain annotation are
\* token sequences.
labelManagedBy == "app.kubernetes.io/managed-by"
controllerName == "hub-agent-kubernetes"
annotationCertificateDomains == "hub.traefik.io/certificate-domains"

\* strings.ToLower on the domain names of this model.
ToLower(d) ==
    IF d = "TEST.localhost" THEN "test.localhost"
    ELSE IF d = "TEST2.localhost" THEN "test2.localhost"
    ELSE d

\* Position of a lower-case domain name in the order of sort.Strings.
DomainRank(d) == IF d = "test.localhost" THEN 1 ELSE IF d = "test2.localhost" THEN 2 ELSE 3

\* s, sorted already, with d at its place.
RECURSIVE insertSorted(_, _)
insertSorted(s, d) ==
    IF s = <<>> THEN <<d>>
    ELSE IF DomainRank(d) <= DomainRank(Head(s)) THEN <<d>> \o s
    ELSE <<Head(s)>> \o insertSorted(Tail(s), d)

\* Faulty variant: the names keep their case.
RECURSIVE sanitizeDomainsKeepCase(_)
sanitizeDomainsKeepCase(domains) ==
    IF domains = <<>> THEN <<>>
    ELSE LET rest == sanitizeDomainsKeepCase(SubSeq(domains, 1, Len(domains) - 1))
             d == domains[Len(domains)]
         IN  IF \E i \in 1..Len(rest) : rest[i] = d THEN rest ELSE Append(rest, d)

\* The domains lower-cased, each kept once, sorted.
RECURSIVE sanitizeDomains(_)
sanitizeDomains(domains) ==
    IF domains = <<>> THEN <<>>
    ELSE LET rest == sanitizeDomains(SubSeq(domains, 1, Len(domains) - 1))
             d == ToLower(domains[Len(domains)])
         IN  IF \E i \in 1..Len(rest) : rest[i] = d THEN rest ELSE insertSorted(rest, d)

\* parseDomains(rule): the names inside the rule's Host(...) matchers, in order.
RECURSIVE parseDomainsFrom(_, _)
parseDomainsFrom(rule, inHost) ==
    IF rule = <<>> THEN <<>>
    ELSE IF Head(rule) = "Host(" THEN parseDomainsFrom(Tail(rule), TRUE)
    ELSE IF Head(rule) = ")" THEN parseDomainsFrom(Tail(rule), FALSE)
    ELSE IF inHost /\ Head(rule) # ","
         THEN <<Head(rule)>> \o parseDomainsFrom(Tail(rule), inHost)
    ELSE parseDomainsFrom(Tail(rule), inHost)

parseDomains(rule) == parseDomainsFrom(rule, FALSE)

\* The main name and the SANs of each TLS domain, in order.
RECURSIVE tlsDomains(_)
tlsDomains(domains) ==
    IF domains = <<>> THEN <<>>
    ELSE <<Head(domains).Main>> \o Head(domains).SANs \o tlsDomains(Tail(domains))

RECURSIVE routeDomains(_)
routeDomains(routes) ==
    IF routes = <<>> THEN <<>>
    ELSE parseDomains(Head(routes).Match) \o routeDomains(Tail(routes))

\* The names a certificate is wanted for: those of the TLS section when it
\* gives any, else the hosts of the routes.
resolveDomains(ingRoute) ==
    IF tlsDomains(ingRoute.TLS.Domains) # <<>> THEN tlsDomains(ingRoute.TLS.Domains)
    ELSE routeDomains(ingRoute.Routes)

\* strings.Split(annotation, ",")
RECURSIVE splitDomains(_)
splitDomains(anno) ==
    IF anno = <<>> THEN <<>>
    ELSE IF Head(anno) = "," THEN splitDomains(Tail(anno))
    ELSE <<Head(anno)>> \o splitDomains(Tail(anno))

\* strings.Join(domains, ",")
RECURSIVE joinDomains(_)
joinDomains(domains) ==
    IF domains = <<>> THEN <<>>
    ELSE IF Len(domains) = 1 THEN domains
    ELSE <<Head(domains), ",">> \o joinDomains(Tail(domains))

isManagedSecret(secret) ==
    labelManagedBy \in DOMAIN secret.Labels /\ secret.Labels[labelManagedBy] = controllerName

getCertificateDomains(secret) ==
    IF annotationCertificateDomains \in DOMAIN secret.Annotations
    THEN splitDomains(secret.Annotations[annotationCertificateDomains])
    ELSE <<>>

CertificateRequest(domains, namespace, secretName) ==
    [Domains |-> domains, Namespace |-> namespace, SecretName |-> secretName]

\* Faulty variant: a secret the user owns is replaced too.
syncIngressRouteAnySecret(ingRoute, store) ==
    IF ~ingRoute.HasTLS THEN <<>>
    ELSE
    LET domains == sanitizeDomains(resolveDomains(ingRoute))
        name == ingRoute.TLS.SecretName
        req == CertificateRequest(domains, ingRoute.Namespace, name)
    IN  IF domains = <<>> THEN <<>>
        ELSE IF name \notin DOMAIN store THEN <<req>>
        ELSE IF sanitizeDomains(getCertificateDomains(store[name])) = domains THEN <<>>
        ELSE <<req>>

\* Controller.syncIngressRoute(ingRoute) against the Secrets of the cluster:
\* the requests it hands to the issuer.
syncIngressRoute(ingRoute, store) ==
    IF ~ingRoute.HasTLS THEN <<>>
    ELSE
    LET domains == sanitizeDomains(resolveDomains(ingRoute))
        name == ingRoute.TLS.SecretName
        req == CertificateRequest(domains, ingRoute.Namespace, name)
    IN  IF domains = <<>> THEN <<>>
        ELSE IF name \notin DOMAIN store THEN <<req>>
        ELSE IF ~isManagedSecret(store[name]) THEN <<>>
        ELSE IF sanitizeDomains(getCertificateDomains(store[name])) = domains THEN <<>>
        ELSE <<req>>

\* ------------------------------------------------------------ developer portal API
headerHubGroups == "Hub-Groups"
headerHubEmail == "Hub-Email"

StatusBadRequest == 400
StatusNotFound == 404
StatusConflict == 409
StatusCreated == 201
StatusNoContent == 204
StatusBadGateway == 502

\* http.Header.Values(name): the values of the header, none when absent.
HeaderValues(hdr, name) == IF name \in DOMAIN hdr THEN hdr[name] ELSE <<>>

\* http.Header.Get(name): the first value of the header, "" when absent.
HeaderFirst(hdr, name) ==
    IF HeaderValues(hdr, name) = <<>> THEN "" ELSE HeaderValues(hdr, name)[1]

NoBody == [kind |-> "none"]

\* A ResponseWriter nothing was written to.
NewRecorder == [wroteHeader |-> FALSE, status |-> 0, header |-> NoHeaders, body |-> NoBody]

\* Faulty variant: a later WriteHeader replaces the status.
ResponseWriteHeaderLastWins(rw, code) ==
    [rw EXCEPT !.wroteHeader = TRUE, !.status = code]

\* rw.WriteHeader(code): the first call sends the status, later calls are
\* ignored.
ResponseWriteHeader(rw, code) ==
    IF rw.wroteHeader THEN rw
    ELSE [rw EXCEPT !.wroteHeader = TRUE, !.status = code]

\* rw.Header().Set(name, value) ahead of WriteHeader.
ResponseSetHeader(rw, name, value) ==
    IF rw.wroteHeader THEN rw
    ELSE [rw EXCEPT !.header = [x \in DOMAIN rw.header \cup {name} |->
                                   IF x = name THEN <<value>> ELSE rw.header[x]]]

\* json.NewEncoder(rw).Encode(v): the body, under 200 when no status was
\* written.
ResponseEncode(rw, v) == [ResponseWriteHeader(rw, StatusOK) EXCEPT !.body = v]

\* Errors of the PlatformClient.
NilError == [isNil |-> TRUE, isAPIError |-> FALSE, StatusCode |-> 0, wrapped |-> FALSE]

APIError(code, wrapped) ==
    [isNil |-> FALSE, isAPIError |-> TRUE, StatusCode |-> code, wrapped |-> wrapped]

OtherError == [isNil |-> FALSE, isAPIError |-> FALSE, StatusCode |-> 0, wrapped |-> FALSE]

\* errors.As(err, &platform.APIError{}): an APIError anywhere in the chain.
errorsAs(err) == ~err.isNil /\ err.isAPIError

\* What a handler leaves behind: the response and the platform calls made.
Handled(rw, pcalls) == [rw |-> rw, calls |-> pcalls]

\* The answer to a failed platform call that returns at once.
platformFailure(err) ==
    IF ~errorsAs(err) THEN ResponseWriteHeader(NewRecorder, StatusInternalServerError)
    ELSE ResponseWriteHeader(NewRecorder, err.StatusCode)

handleListTokens(r, env) ==
    LET userEmail == HeaderFirst(r.Header, headerHubEmail)
        call == [op |-> "ListUserTokens", email |-> userEmail, name |-> "", suspend |-> FALSE]
    IN  IF userEmail = "" THEN Handled(ResponseWriteHeader(NewRecorder, StatusBadRequest), <<>>)
        ELSE IF ~env.platformErr.isNil THEN Handled(platformFailure(env.platformErr), <<call>>)
        ELSE Handled(ResponseEncode(ResponseWriteHeader(NewRecorder, StatusOK),
                                    [kind |-> "tokens", tokens |-> env.tokens]),
                     <<call>>)

handleCreateToken(r, env) ==
    LET userEmail == HeaderFirst(r.Header, headerHubEmail)
        call == [op |-> "CreateUserToken", email |-> userEmail, name |-> r.Body.name,
                 suspend |-> FALSE]
    IN  IF userEmail = "" THEN Handled(ResponseWriteHeader(NewRecorder, StatusBadRequest), <<>>)
        ELSE IF ~r.Body.valid
             THEN Handled(ResponseWriteHeader(NewRecorder, StatusBadRequest), <<>>)
        ELSE IF ~env.platformErr.isNil THEN Handled(platformFailure(env.platformErr), <<call>>)
        ELSE Handled(ResponseEncode(ResponseWriteHeader(NewRecorder, StatusCreated),
                                    [kind |-> "token", token |-> env.token]),
                     <<call>>)

\* The error branch of handleSuspendToken and handleDeleteToken: an APIError
\* writes its status and does not return, the status of success is written
\* after it.
platformFailureThen(err, code) ==
    IF ~errorsAs(err) THEN ResponseWriteHeader(NewRecorder, StatusInternalServerError)
    ELSE ResponseWriteHeader(ResponseWriteHeader(NewRecorder, err.StatusCode), code)

handleSuspendToken(r, env) ==
    LET userEmail == HeaderFirst(r.Header, headerHubEmail)
        call == [op |-> "SuspendUserToken", email |-> userEmail, name |-> r.Body.name,
                 suspend |-> r.Body.suspend]
    IN  IF userEmail = "" THEN Handled(ResponseWriteHeader(NewRecorder, StatusBadRequest), <<>>)
        ELSE IF ~r.Body.valid
             THEN Handled(ResponseWriteHeader(NewRecorder, StatusBadRequest), <<>>)
        ELSE IF ~env.platformErr.isNil
             THEN Handled(platformFailureThen(env.platformErr, StatusOK), <<call>>)
        ELSE Handled(ResponseWriteHeader(NewRecorder, StatusOK), <<call>>)

handleDeleteToken(r, env) ==
    LET userEmail == HeaderFirst(r.Header, headerHubEmail)
        call == [op |-> "DeleteUserToken", email |-> userEmail, name |-> r.Body.name,
                 suspend |-> FALSE]
    IN  IF userEmail = "" THEN Handled(ResponseWriteHeader(NewRecorder, StatusBadRequest), <<>>)
        ELSE IF ~r.Body.valid
             THEN Handled(ResponseWriteHeader(NewRecorder, StatusBadRequest), <<>>)
        ELSE IF ~env.platformErr.isNil
             THEN Handled(platformFailureThen(env.platformErr, StatusNoContent), <<call>>)
        ELSE Handled(ResponseWriteHeader(NewRecorder, StatusNoContent), <<call>>)

\* api.authorizes, collection.authorizes: one of the caller's groups is among
\* the authorized groups.
authorizes(authorizedGroups, userGroups) ==
    \E i \in 1..Len(userGroups) : userGroups[i] \in authorizedGroups

\* Order of the names of this model under Go's string comparison.
NameRank(name) ==
    IF name = "books" THEN 1
    ELSE IF name = "managers" THEN 2
    ELSE IF name = "products" THEN 3
    ELSE IF name = "toys" THEN 4
    ELSE 5

\* sort.Slice by Name over the entries of a map range: every order of the
\* entries in which no name comes before a smaller one.
sortedByName(entries) ==
    { s \in [1..Cardinality(entries) -> entries] :
          /\ \A i, j \in 1..Cardinality(entries) : i # j => s[i] # s[j]
          /\ \A i, j \in 1..Cardinality(entries) :
                 i < j => NameRank(s[i].Name) <= NameRank(s[j].Name) }

apiResp(name, pathPrefix, specLink) ==
    [Name |-> name, PathPrefix |-> pathPrefix, SpecLink |-> specLink]

\* Faulty variant: every gateway-level API is listed.
gatewayAPIsRespUnfiltered(p, userGroups) ==
    { apiResp(p.Gateway.APIs[k].Name, p.Gateway.APIs[k].PathPrefix, <<"/apis/", k>>) :
          k \in DOMAIN p.Gateway.APIs }

\* buildListResp, the loop over p.Gateway.APIs.
gatewayAPIsResp(p, userGroups) ==
    { apiResp(p.Gateway.APIs[k].Name, p.Gateway.APIs[k].PathPrefix, <<"/apis/", k>>) :
          k \in { k \in DOMAIN p.Gateway.APIs :
                      authorizes(p.Gateway.APIs[k].authorizedGroups, userGroups) } }

\* buildListResp, the inner loop over the APIs of a collection.
collectionAPIsResp(name, c) ==
    { apiResp(c.APIs[k].Name, c.PathPrefix \o c.APIs[k].PathPrefix,
              <<"/collections/", name, "/apis/", k>>) : k \in DOMAIN c.APIs }

\* buildListResp(p, userGroups): the responses it may build, one for each
\* order the sorts may leave entries of equal name in.
buildListResp(p, userGroups) ==
    LET cs == { n \in DOMAIN p.Gateway.Collections :
                    authorizes(p.Gateway.Collections[n].authorizedGroups, userGroups) }
        crs == UNION { { [Name |-> n, PathPrefix |-> p.Gateway.Collections[n].PathPrefix,
                          APIs |-> as] :
                            as \in sortedByName(collectionAPIsResp(n, p.Gateway.Collections[n])) }
                       : n \in cs }
        \* one response per collection, in every sorted order
        pick == { cset \in SUBSET crs :
                      /\ Cardinality(cset) = Cardinality(cs)
                      /\ \A n \in cs : \E e \in cset : e.Name = n }
    IN  { [Collections |-> cl, APIs |-> al] :
              cl \in UNION { sortedByName(cset) : cset \in pick },
              al \in sortedByName(gatewayAPIsResp(p, userGroups)) }

\* serveAPISpec: the OpenAPI spec fetched and adapted, or the failure.
serveAPISpec(env) ==
    IF env.specFetch = "fetch error" THEN ResponseWriteHeader(NewRecorder, StatusBadGateway)
    ELSE IF env.specFetch = "bad server URL"
         THEN ResponseWriteHeader(NewRecorder, StatusInternalServerError)
    ELSE ResponseEncode(
             ResponseWriteHeader(
                 ResponseSetHeader(NewRecorder, "Content-Type", "application/json"), StatusOK),
             [kind |-> "spec"])

\* Faulty variant: an API the caller is not authorized for is answered 403.
handleGetAPISpecForbidden(r, p, env) ==
    IF r.api \notin DOMAIN p.Gateway.APIs
    THEN ResponseWriteHeader(NewRecorder, StatusNotFound)
    ELSE IF ~authorizes(p.Gateway.APIs[r.api].authorizedGroups,
                        HeaderValues(r.Header, headerHubGroups))
         THEN ResponseWriteHeader(NewRecorder, 403)
    ELSE serveAPISpec(env)

handleGetAPISpec(r, p, env) ==
    IF \/ r.api \notin DOMAIN p.Gateway.APIs
       \/ ~authorizes(p.Gateway.APIs[r.api].authorizedGroups,
                      HeaderValues(r.Header, headerHubGroups))
    THEN ResponseWriteHeader(NewRecorder, StatusNotFound)
    ELSE serveAPISpec(env)

handleGetCollectionAPISpec(r, p, env) ==
    IF \/ r.collection \notin DOMAIN p.Gateway.Collections
       \/ ~authorizes(p.Gateway.Collections[r.collection].authorizedGroups,
                      HeaderValues(r.Header, headerHubGroups))
    THEN ResponseWriteHeader(NewRecorder, StatusNotFound)
    ELSE IF r.api \notin DOMAIN p.Gateway.Collections[r.collection].APIs
         THEN ResponseWriteHeader(NewRecorder, StatusNotFound)
    ELSE serveAPISpec(env)

\* ------------------------------------------------------------ inputs
RECURSIVE SeqsUpTo(_, _)
SeqsUpTo(S, n) ==
    IF n = 0 THEN {<<>>}
    ELSE LET shorter == SeqsUpTo(S, n - 1) IN
         shorter \cup {Append(s, x) : s \in shorter, x \in S}

\* What a user writes into a snippet annotation.
UserSnippets == SeqsUpTo({"user-directive"}, MaxUserLen) \ {<<>>}

\* What a user writes into the ACP annotation.
UserPolicyNames ==
    {<<>>, <<"my-policy">>, <<"my-policy", "@", "test">>, <<"my-old-policy", "@", "test">>,
     <<"a", "@", "b", "@", "c">>}

EditKeys == ManagedKeys \cup {AnnotationNeoAuth, CustomKey}

\* The annotations a user edits on an object of the kind.
EditKeysOf(kind) ==
    IF isTraefikV1Alpha1IngressRoute(kind) THEN {AnnotationNeoAuth} ELSE EditKeys

UserValues(k) ==
    IF k = AnnotationNeoAuth THEN UserPolicyNames
    ELSE IF k \in SnippetKeys THEN UserSnippets
    ELSE IF k = AuthURLKey THEN {<<>>}
    ELSE {<<"foobar">>}


PolicyNames == {<<"my-policy", "@", "test">>, <<"my-old-policy", "@", "test">>}

JWTConfig == [type |-> "jwt", fwdHeaders |-> <<"fwdHeader">>, strip |-> FALSE]

PolicyConfigs ==
    {JWTConfig,
     [type |-> "basicAuth", fwdHeaders |-> <<>>, strip |-> FALSE],
     [type |-> "unsupported", fwdHeaders |-> <<>>, strip |-> FALSE]}

\* The configurations the store's watch loop gives policy n in this model:
\* my-policy@test takes every shape, my-old-policy@test stays a JWT policy.
PolicyConfigsOf(n) ==
    IF n = <<"my-policy", "@", "test">> THEN PolicyConfigs \cup {NotFound} ELSE {JWTConfig}

Kinds ==
    {GVK("networking.k8s.io", "v1", "Ingress"),
     GVK("networking.k8s.io", "v1beta1", "Ingress"),
     GVK("extensions", "v1beta1", "Ingress"),
     GVK("traefik.containo.us", "v1alpha1", "IngressRoute"),
     GVK("networking.k8s.io", "v1", "NetworkPolicy"),
     GVK("extensions", "invalid", "Ingress"),
     GVK("invalid", "v1beta1", "Ingress"),
     GVK("traefik.containo.us", "invalid", "IngressRoute")}

ClassNames == {<<"nginx">>, <<"my-class">>}

UserClasses == ClassNames \cup {<<"unknown-class">>}

Controllers ==
    {ControllerTypeNginxOfficial, ControllerTypeNginxCommunity, ControllerTypeTraefik}

\* The controllers a class of the cluster names in this model: a class called
\* "nginx" is only ever given to Traefik, my-class to any controller.
ControllersOf(name) == IF name = <<"nginx">> THEN {ControllerTypeTraefik} ELSE Controllers

\* ------------------------------------------------------------ state machine
NoResult == [err |-> "", patch |-> <<>>, panic |-> FALSE]

NotAsked == [called |-> FALSE, nginx |-> [ok |-> FALSE, err |-> ""],
             traefik |-> [ok |-> FALSE, err |-> ""]]

EmptyIngress ==
    [parseable |-> TRUE, namespace |-> <<"test">>, ingressClassName |-> <<>>,
     annotations |-> NilMap, routes |-> <<>>]

Route(match) ==
    [Match |-> match, Kind |-> "Rule", Priority |-> 2, Services |-> <<"Name">>,
     Middlewares |-> <<>>]

\* An IngressRoute with two routes and no middleware.
EmptyIngressRoute ==
    [parseable |-> TRUE, namespace |-> <<"test">>, ingressClassName |-> <<>>,
     annotations |-> NilMap, routes |-> <<Route("match-a"), Route("match-b")>>]

NoOldObject == [present |-> FALSE, annotations |-> NilMap]

IngressKind == GVK("networking.k8s.io", "v1", "Ingress")

IngressRouteKind == GVK("traefik.containo.us", "v1alpha1", "IngressRoute")

CustomMiddleware == MiddlewareRef(<<"custom-middleware">>, <<"test">>)

InitReview ==
    /\ \/ ar = [kind |-> IngressKind, object |-> EmptyIngress, oldObject |-> NoOldObject]
       \/ ar = [kind |-> IngressRouteKind, object |-> EmptyIngressRoute,
                oldObject |-> NoOldObject]
    /\ policies = [n \in PolicyNames |-> IF NotFound \in PolicyConfigsOf(n) THEN NotFound
                                                                       ELSE JWTConfig]
    /\ ingressClasses = [controllers |-> EmptyKV, defaultCtrlr |-> <<>>, defaultErr |-> FALSE]
    /\ pc = "submitted"
    /\ rv = NoResult
    /\ cr = NotAsked
    /\ applied = FALSE
    /\ middlewares = EmptyKV

\* No policy identities drawn, no Middleware name derived.
NoNaming == [a |-> <<>>, b |-> <<>>, derived |-> FALSE, nameA |-> <<>>, nameB |-> <<>>]

\* The zero apikey.Config.
NoConfig ==
    [Header |-> "", Query |-> "", Cookie |-> "", Keys |-> <<>>,
     ForwardHeaders |-> NilStringMap]

\* NewHandler not called yet.
NoHandler == [called |-> FALSE, h |-> NilHandler("")]

NoRequest == [received |-> FALSE, Header |-> NoHeaders, Cookies |-> NoHeaders]

\* getAPIkey not called.
NoLookup == [err |-> "", apiKey |-> <<>>]

\* Nothing written to the ResponseWriter.
NoResponse == [status |-> 0, header |-> NoHeaders, body |-> ""]

InitNaming == naming = NoNaming

InitAPIKey ==
    /\ akConfig = NoConfig
    /\ akHandler = NoHandler
    /\ akRequest = NoRequest
    /\ akLookup = NoLookup
    /\ akResponse = NoResponse

\* A call of Review that has not begun.
IdleCall ==
    [pc |-> "idle", ar |-> [kind |-> IngressKind, object |-> EmptyIngress,
                            oldObject |-> NoOldObject],
     given |-> [kind |-> IngressKind, object |-> EmptyIngress, oldObject |-> NoOldObject],
     annotations |-> NilMap, polName |-> <<>>, snippets |-> zeroSnippets,
     result |-> NoResult]

\* Most Review calls in progress at once.
MaxCalls == 2

InitCalls == calls = [c \in 1..MaxCalls |-> IdleCall]

\* No IngressRoute synced yet, the Secrets of the cluster as they stand.
NoSync == [synced |-> FALSE, ingRoute |-> [HasTLS |-> FALSE, Namespace |-> "ns",
           TLS |-> [SecretName |-> "", Domains |-> <<>>], Routes |-> <<>>]]

ManagedSecret(domains) ==
    [Labels |-> [l \in {labelManagedBy} |-> controllerName],
     Annotations |-> [a \in {annotationCertificateDomains} |-> domains]]

UserSecret == [Labels |-> <<>>, Annotations |-> <<>>]

ClusterSecrets ==
    ("user-secret" :> UserSecret)
    @@ ("secret" :> ManagedSecret(<<"test.localhost">>))
    @@ ("secret2" :> ManagedSecret(<<"test.localhost", ",", "test2.localhost">>))

InitACME ==
    /\ acmeSync = NoSync
    /\ secrets = ClusterSecrets
    /\ issuerCalls = <<>>

\* The zero portal, as in "var p portal".
EmptyPortal == [Gateway |-> [Collections |-> <<>>, APIs |-> <<>>]]

\* The platform answers without error, the spec endpoint serves a spec.
QuietEnv == [platformErr |-> NilError, tokens |-> <<>>, token |-> "", specFetch |-> "ok"]

NoPortalRequest ==
    [received |-> FALSE, Method |-> "", Route |-> "", Header |-> NoHeaders,
     Body |-> [valid |-> FALSE, name |-> "", suspend |-> FALSE], collection |-> "", api |-> ""]

InitPortal ==
    /\ portal = EmptyPortal
    /\ portalEnv = QuietEnv
    /\ portalReq = NoPortalRequest
    /\ portalResp = NewRecorder
    /\ platformCalls = <<>>

Init == InitReview /\ InitNaming /\ InitAPIKey /\ InitCalls /\ InitACME /\ InitPortal

\* A new request replaces the one in flight: nothing is known about it yet.
Fresh ==
    /\ pc' = "submitted"
    /\ rv' = NoResult
    /\ cr' = NotAsked
    /\ applied' = FALSE

\* The user sets annotation k of the object to v and submits it.
SetAnnotation(k, v) ==
    /\ ar.object.parseable
    /\ k \in EditKeysOf(ar.kind)
    /\ ar' = [ar EXCEPT !.object.annotations = Put(@, k, v)]
    /\ Fresh
    /\ UNCHANGED <<middlewares, policies, ingressClasses>>
    /\ UNCHANGED <<namingVars, apikeyVars, concVars, acmeVars, portalVars>>

\* The user removes annotation k and submits the object.
RemoveAnnotation(k) ==
    /\ ar.object.parseable
    /\ Has(ar.object.annotations, k)
    /\ ar' = [ar EXCEPT !.object.annotations = Delete(@, k)]
    /\ Fresh
    /\ UNCHANGED <<middlewares, policies, ingressClasses>>
    /\ UNCHANGED <<namingVars, apikeyVars, concVars, acmeVars, portalVars>>

\* The user submits the object with no annotations at all.
SubmitBare ==
    /\ ar' = [ar EXCEPT !.object = [@ EXCEPT !.parseable = TRUE, !.annotations = NilMap]]
    /\ Fresh
    /\ UNCHANGED <<middlewares, policies, ingressClasses>>
    /\ UNCHANGED <<namingVars, apikeyVars, concVars, acmeVars, portalVars>>

\* A request whose raw object does not unmarshal.
SubmitGarbage ==
    /\ ar' = [ar EXCEPT !.object = [@ EXCEPT !.parseable = FALSE, !.annotations = NilMap]]
    /\ Fresh
    /\ UNCHANGED <<middlewares, policies, ingressClasses>>
    /\ UNCHANGED <<namingVars, apikeyVars, concVars, acmeVars, portalVars>>

\* The Policy Store's watch loop creates, changes or deletes a policy.
SetPolicy(n, cfg) ==
    /\ policies[n] # cfg
    /\ policies' = [policies EXCEPT ![n] = cfg]
    /\ pc' = "submitted"
    /\ rv' = NoResult
    /\ applied' = FALSE
    /\ UNCHANGED <<middlewares, ar, ingressClasses, cr>>
    /\ UNCHANGED <<namingVars, apikeyVars, concVars, acmeVars, portalVars>>

\* The user adds a middleware of their own at the end of route i.
AddCustomMiddleware(i) ==
    /\ ar.object.parseable
    /\ i \in 1..Len(ar.object.routes)
    /\ ~HasRef(ar.object.routes[i].Middlewares, CustomMiddleware)
    /\ ar' = [ar EXCEPT !.object.routes[i].Middlewares = Append(@, CustomMiddleware)]
    /\ Fresh
    /\ UNCHANGED <<middlewares, policies, ingressClasses>>
    /\ UNCHANGED <<namingVars, apikeyVars, concVars, acmeVars, portalVars>>

\* The user takes every middleware of route i away.
ClearMiddlewares(i) ==
    /\ ar.object.parseable
    /\ i \in 1..Len(ar.object.routes)
    /\ ar.object.routes[i].Middlewares # <<>>
    /\ ar' = [ar EXCEPT !.object.routes[i].Middlewares = <<>>]
    /\ Fresh
    /\ UNCHANGED <<middlewares, policies, ingressClasses>>
    /\ UNCHANGED <<namingVars, apikeyVars, concVars, acmeVars, portalVars>>

\* The webhook runs TraefikIngressRoute.Review on the request.
ReviewIngressRoute ==
    /\ pc = "submitted"
    /\ isTraefikV1Alpha1IngressRoute(ar.kind)
    /\ \E clientFails \in BOOLEAN :
          LET r == TraefikIngressRouteReview(ar, policies, middlewares, clientFails) IN
          /\ rv' = [err |-> r.err, patch |-> r.patch, panic |-> r.panic]
          /\ middlewares' = r.mws
    /\ pc' = "reviewed"
    /\ UNCHANGED <<ar, policies, ingressClasses, cr, applied>>
    /\ UNCHANGED <<namingVars, apikeyVars, concVars, acmeVars, portalVars>>

\* The API server stores the admitted IngressRoute, patched when the review
\* returned a patch; it is the previous object of the next update.
PersistIngressRoute ==
    /\ pc = "reviewed"
    /\ isTraefikV1Alpha1IngressRoute(ar.kind)
    /\ rv.err = ""
    /\ LET routes == IF rv.patch # <<>> THEN rv.patch[1].value ELSE ar.object.routes IN
       ar' = [ar EXCEPT !.object.routes = routes,
                        !.oldObject = [present |-> TRUE,
                                       annotations |-> ar.object.annotations]]
    /\ pc' = "submitted"
    /\ rv' = NoResult
    /\ cr' = NotAsked
    /\ applied' = (rv.patch # <<>>)
    /\ UNCHANGED <<middlewares, policies, ingressClasses>>
    /\ UNCHANGED <<namingVars, apikeyVars, concVars, acmeVars, portalVars>>

\* The webhook runs NginxIngress.Review on the request.
Review ==
    /\ pc = "submitted"
    /\ ~isTraefikV1Alpha1IngressRoute(ar.kind)
    /\ rv' = NginxIngressReview(ar, policies)
    /\ pc' = "reviewed"
    /\ UNCHANGED <<middlewares, ar, policies, ingressClasses, cr, applied>>
    /\ UNCHANGED <<namingVars, apikeyVars, concVars, acmeVars, portalVars>>

\* The dispatcher asks each registered reviewer whether it handles the request.
CanReview ==
    /\ ~cr.called
    /\ cr' = [called |-> TRUE,
              nginx |-> NginxIngressCanReview(ar, ingressClasses),
              traefik |-> TraefikIngressRouteCanReview(ar)]
    /\ UNCHANGED <<middlewares, ar, policies, ingressClasses, pc, rv, applied>>
    /\ UNCHANGED <<namingVars, apikeyVars, concVars, acmeVars, portalVars>>

\* The class watcher starts or stops failing to name one default controller.
SetDefaultError(b) ==
    /\ ingressClasses.defaultErr # b
    /\ ingressClasses' = [ingressClasses EXCEPT !.defaultErr = b]
    /\ cr' = NotAsked
    /\ UNCHANGED <<middlewares, ar, policies, pc, rv, applied>>
    /\ UNCHANGED <<namingVars, apikeyVars, concVars, acmeVars, portalVars>>

\* The API server applies the patch; the patched object is what later
\* requests for this Ingress carry.
Persist ==
    /\ pc = "reviewed"
    /\ ~isTraefikV1Alpha1IngressRoute(ar.kind)
    /\ rv.err = "" /\ ~rv.panic /\ rv.patch # <<>>
    /\ ar' = [ar EXCEPT !.object.annotations = [isNil |-> FALSE, kv |-> rv.patch[1].value]]
    /\ pc' = "submitted"
    /\ rv' = NoResult
    /\ applied' = TRUE
    /\ cr' = NotAsked
    /\ UNCHANGED <<middlewares, policies, ingressClasses>>
    /\ UNCHANGED <<namingVars, apikeyVars, concVars, acmeVars, portalVars>>

Next ==
    \/ \E k \in EditKeys : \E v \in UserValues(k) : SetAnnotation(k, v)
    \/ \E k \in EditKeys : RemoveAnnotation(k)
    \/ SubmitBare
    \/ SubmitGarbage
    \/ \E n \in PolicyNames : \E cfg \in PolicyConfigsOf(n) : SetPolicy(n, cfg)
    \/ Review
    \/ Persist
    \/ \E i \in 1..2 : AddCustomMiddleware(i)
    \/ \E i \in 1..2 : ClearMiddlewares(i)
    \/ ReviewIngressRoute
    \/ PersistIngressRoute

Spec == Init /\ [][Next]_vars

\* ------------------------------------------------------------ class resolution runs
\* The request is for a resource of another kind, group or version.
SetKind(k) ==
    /\ ar.kind # k
    /\ ar' = [ar EXCEPT !.kind = k]
    /\ Fresh
    /\ UNCHANGED <<middlewares, policies, ingressClasses>>
    /\ UNCHANGED <<namingVars, apikeyVars, concVars, acmeVars, portalVars>>

\* The user sets spec.ingressClassName ("" removes it).
SetIngressClassName(c) ==
    /\ ar.object.parseable
    /\ ar.object.ingressClassName # c
    /\ ar' = [ar EXCEPT !.object.ingressClassName = c]
    /\ Fresh
    /\ UNCHANGED <<middlewares, policies, ingressClasses>>
    /\ UNCHANGED <<namingVars, apikeyVars, concVars, acmeVars, portalVars>>

\* The user sets the legacy kubernetes.io/ingress.class annotation.
SetClassAnnotation(v) ==
    /\ ar.object.parseable
    /\ ar' = [ar EXCEPT !.object.annotations = Put(@, annotationIngressClass, v)]
    /\ Fresh
    /\ UNCHANGED <<middlewares, policies, ingressClasses>>
    /\ UNCHANGED <<namingVars, apikeyVars, concVars, acmeVars, portalVars>>

\* The class watcher learns of an IngressClass and its controller.
SetController(name, ctrlr) ==
    /\ GetController(ingressClasses, name) # ctrlr
    /\ ingressClasses' = [ingressClasses EXCEPT !.controllers =
            [n \in (DOMAIN @) \cup {name} |-> IF n = name THEN ctrlr ELSE @[n]]]
    /\ cr' = NotAsked
    /\ UNCHANGED <<middlewares, ar, policies, pc, rv, applied>>
    /\ UNCHANGED <<namingVars, apikeyVars, concVars, acmeVars, portalVars>>

\* The class watcher sees an IngressClass deleted.
RemoveController(name) ==
    /\ name \in DOMAIN ingressClasses.controllers
    /\ ingressClasses' = [ingressClasses EXCEPT !.controllers =
            [n \in (DOMAIN @) \ {name} |-> @[n]]]
    /\ cr' = NotAsked
    /\ UNCHANGED <<middlewares, ar, policies, pc, rv, applied>>
    /\ UNCHANGED <<namingVars, apikeyVars, concVars, acmeVars, portalVars>>

\* The default IngressClass changes ("" when the cluster has none).
SetDefaultController(ctrlr) ==
    /\ ingressClasses.defaultCtrlr # ctrlr
    /\ ingressClasses' = [ingressClasses EXCEPT !.defaultCtrlr = ctrlr]
    /\ cr' = NotAsked
    /\ UNCHANGED <<middlewares, ar, policies, pc, rv, applied>>
    /\ UNCHANGED <<namingVars, apikeyVars, concVars, acmeVars, portalVars>>

NextClass ==
    \/ \E k \in Kinds : SetKind(k)
    \/ \E c \in UserClasses \cup {<<>>} : SetIngressClassName(c)
    \/ \E v \in UserClasses \cup {<<>>} : SetClassAnnotation(v)
    \/ RemoveAnnotation(annotationIngressClass)
    \/ SubmitBare
    \/ SubmitGarbage
    \/ \E n \in ClassNames : \E c \in ControllersOf(n) : SetController(n, c)
    \/ \E n \in ClassNames : RemoveController(n)
    \/ \E c \in Controllers \cup {<<>>} : SetDefaultController(c)
    \/ \E b \in BOOLEAN : SetDefaultError(b)
    \/ CanReview

\* Applicability: requests of every kind and class against a changing registry.
SpecClass == Init /\ [][NextClass]_vars

NextErrors ==
    \/ \E v \in UserPolicyNames : SetAnnotation(AnnotationNeoAuth, v)
    \/ \E v \in UserClasses \cup {<<>>} : SetClassAnnotation(v)
    \/ SubmitBare
    \/ SubmitGarbage
    \/ \E n \in PolicyNames : \E cfg \in PolicyConfigsOf(n) : SetPolicy(n, cfg)
    \/ \E b \in BOOLEAN : SetDefaultError(b)
    \/ CanReview
    \/ Review

\* One request taken through CanReview and Review, with every failure of
\* either: garbage objects, bad policy names, missing and unsupported
\* policies, a failing default-controller lookup.
SpecErrors == Init /\ [][NextErrors]_vars

\* ------------------------------------------------------------ Middleware naming runs
\* Longest policy name and longest namespace, in characters.
MaxNameLen == 3

\* Names of Kubernetes objects: alphanumerics and "-", neither first nor last.
ObjectNames ==
    {s \in SeqsUpTo({"a", "-"}, MaxNameLen) : s # <<>> /\ s[1] # "-" /\ s[Len(s)] # "-"}

\* Policy references as users write them, name@namespace.
PolicyIdentities == {n \o <<"@">> \o ns : n \in ObjectNames, ns \in ObjectNames}

InitNames ==
    /\ InitReview
    /\ InitAPIKey
    /\ InitCalls
    /\ InitACME
    /\ InitPortal
    /\ naming \in [a : PolicyIdentities, b : PolicyIdentities, derived : {FALSE},
                   nameA : {<<>>}, nameB : {<<>>}]

\* The reviewer names the Middleware of each of the two policies, as it does
\* ahead of Setup for an object of namespace test.
DeriveNames ==
    /\ ~naming.derived
    /\ naming' = [naming EXCEPT
                    !.derived = TRUE,
                    !.nameA = middlewareName(CanonicalName(naming.a, <<"test">>).name),
                    !.nameB = middlewareName(CanonicalName(naming.b, <<"test">>).name)]
    /\ UNCHANGED <<reviewVars, apikeyVars, concVars, acmeVars, portalVars>>

NextNames == DeriveNames

\* Middleware names derived for every pair of policy identities.
SpecNames == InitNames /\ [][NextNames]_vars

\* ------------------------------------------------------------ API-key handler runs
\* Most key entries of a configuration.
MaxKeys == 2

LocationConfigs ==
    [Header : {"", "Api-Key"}, Query : {"", "api-key"}, Cookie : {"", "api-key"}]

\* Key entries as an operator may write them, well-formed or not.
ConfigKeys ==
    [ID : {"", "user-1", "user-2"},
     Value : {<<>>, Shake256Hex(<<"secret-1">>), Shake256Hex(<<"secret-2">>)},
     Metadata : {NilStringMap, StringMap("_id" :> "spoof" @@ "group" :> "admin")}]

ForwardRules == StringMap("Id" :> "_id" @@ "Group" :> "group")

Configs ==
    {[Header |-> l.Header, Query |-> l.Query, Cookie |-> l.Cookie, Keys |-> ks,
      ForwardHeaders |-> fh] :
        l \in LocationConfigs, ks \in SeqsUpTo(ConfigKeys, MaxKeys),
        fh \in {NilStringMap, ForwardRules}}

\* The key entries of the handlers that serve requests.
ServeKeys ==
    {[ID |-> "user-1", Value |-> Shake256Hex(<<"secret-1">>),
      Metadata |-> StringMap("group" :> "admin")],
     [ID |-> "user-2", Value |-> Shake256Hex(<<"secret-2">>), Metadata |-> NilStringMap],
     [ID |-> "user-3", Value |-> Shake256Hex(<<"secret-1">>),
      Metadata |-> StringMap("_id" :> "spoof")]}

ServeConfigs ==
    {[Header |-> l.Header, Query |-> l.Query, Cookie |-> l.Cookie, Keys |-> ks,
      ForwardHeaders |-> fh] :
        l \in LocationConfigs, ks \in SeqsUpTo(ServeKeys, MaxKeys),
        fh \in {NilStringMap, ForwardRules, StringMap("Bad" :> InvalidClaim)}}

URI(q) == <<"/path", "?", "api-key", "=", q>>

\* A URI whose path holds an invalid escape.
BadURI == <<"/", "%zz">>

Requests ==
    {[received |-> TRUE,
      Header |-> ("Api-Key" :> hv @@ "X-Forwarded-Uri" :> xfu @@ "X-Original-Url" :> xou),
      Cookies |-> ck] :
        hv \in {<<>>, <<"secret-1">>, <<"bogus">>},
        xfu \in {<<>>, BadURI, <<"/path">>, URI("secret-1"), URI("bogus")},
        xou \in {<<>>, BadURI, URI("secret-1")},
        ck \in {NoHeaders, "api-key" :> <<>>, "api-key" :> <<"secret-1">>,
                "api-key" :> <<"secret-2">>}}

InitNewHandler ==
    /\ InitReview /\ ar.kind = IngressKind
    /\ InitNaming
    /\ InitCalls
    /\ InitACME
    /\ InitPortal
    /\ akConfig \in Configs
    /\ akHandler = NoHandler
    /\ akRequest = NoRequest
    /\ akLookup = NoLookup
    /\ akResponse = NoResponse

InitServe ==
    /\ InitReview /\ ar.kind = IngressKind
    /\ InitNaming
    /\ InitCalls
    /\ InitACME
    /\ InitPortal
    /\ akConfig \in ServeConfigs
    /\ akHandler = NoHandler
    /\ akRequest = NoRequest
    /\ akLookup = NoLookup
    /\ akResponse = NoResponse

\* The agent builds the handler of the policy from its configuration.
Construct ==
    /\ ~akHandler.called
    /\ akHandler' = [called |-> TRUE, h |-> NewHandler(akConfig, "my-policy@test")]
    /\ UNCHANGED <<akConfig, akRequest, akLookup, akResponse>>
    /\ UNCHANGED <<reviewVars, namingVars, concVars, acmeVars, portalVars>>

\* The proxy hands a request to the handler.
Receive(r) ==
    /\ akHandler.called /\ ~akHandler.h.isNil
    /\ ~akRequest.received
    /\ akRequest' = r
    /\ UNCHANGED <<akConfig, akHandler, akLookup, akResponse>>
    /\ UNCHANGED <<reviewVars, namingVars, concVars, acmeVars, portalVars>>

\* Handler.ServeHTTP runs to its return.
Serve ==
    /\ akRequest.received
    /\ akResponse = NoResponse
    /\ akLookup' = getAPIkey(akHandler.h, akRequest)
    /\ akResponse' = ServeHTTP(akHandler.h, akRequest)
    /\ UNCHANGED <<akConfig, akHandler, akRequest>>
    /\ UNCHANGED <<reviewVars, namingVars, concVars, acmeVars, portalVars>>

NextNewHandler == Construct

\* NewHandler on configurations of every shape.
SpecNewHandler == InitNewHandler /\ [][NextNewHandler]_vars

NextServe ==
    \/ Construct
    \/ \E r \in Requests : Receive(r)
    \/ Serve

\* A handler built from its configuration serves one request.
SpecServe == InitServe /\ [][NextServe]_vars

\* ------------------------------------------------------------ concurrent reviews
\* Review calls in progress, one goroutine each, interleaved step by step.
\* ar is the request as the call holds it, given the request as it came;
\* annotations, polName and snippets are the call's local variables.

\* Requests under review at once.
ConcurrentRequests ==
    {[kind |-> IngressKind, object |-> obj, oldObject |-> NoOldObject] :
        obj \in {EmptyIngress,
                 [EmptyIngress EXCEPT !.parseable = FALSE],
                 [EmptyIngress EXCEPT !.annotations =
                     Put(NilMap, AnnotationNeoAuth, <<"my-policy", "@", "test">>)],
                 [EmptyIngress EXCEPT !.annotations =
                     Put(Put(NilMap, AnnotationNeoAuth, <<"my-old-policy", "@", "test">>),
                         ServerSnippetsKey, <<"user-directive">>)],
                 [EmptyIngress EXCEPT !.annotations =
                     Put(NilMap, AuthURLKey, <<"http://hub-agent", "/", "gone", "@", "test">>)]}}

\* Contents of the Policy Store while the calls run.
ConcurrentStores ==
    {[n \in PolicyNames |-> IF n = <<"my-policy", "@", "test">> THEN cfg ELSE JWTConfig] :
        cfg \in {NotFound, [type |-> "basicAuth", fwdHeaders |-> <<>>, strip |-> TRUE]}}

InitConcurrent ==
    /\ ar = [kind |-> IngressKind, object |-> EmptyIngress, oldObject |-> NoOldObject]
    /\ policies \in ConcurrentStores
    /\ ingressClasses = [controllers |-> EmptyKV, defaultCtrlr |-> <<>>, defaultErr |-> FALSE]
    /\ pc = "submitted"
    /\ rv = NoResult
    /\ cr = NotAsked
    /\ applied = FALSE
    /\ middlewares = EmptyKV
    /\ InitNaming
    /\ InitAPIKey
    /\ InitCalls
    /\ InitACME
    /\ InitPortal

\* Faulty variant: the snippets are kept in one place for all calls.
snippetsOfShared(cs, c) == cs[1].snippets

\* The local variable snippets of call c.
snippetsOf(cs, c) == cs[c].snippets

\* Call c is made with the request.
Begin(c, req) ==
    /\ calls[c].pc = "idle"
    /\ calls' = [calls EXCEPT ![c] = [IdleCall EXCEPT !.pc = "unmarshal",
                                                      !.ar = req, !.given = req]]
    /\ UNCHANGED <<reviewVars, namingVars, apikeyVars, acmeVars, portalVars>>

\* The call decodes the object's metadata into a map of its own and reads
\* the ACP annotation.
Unmarshal(c) ==
    /\ calls[c].pc = "unmarshal"
    /\ LET ing == calls[c].ar.object IN
       calls' = [calls EXCEPT ![c] =
          IF ~ing.parseable
          THEN [@ EXCEPT !.pc = "done",
                         !.result = Failed("unmarshal reviewed ingress metadata")]
          ELSE [@ EXCEPT !.pc = "resolve",
                         !.annotations = ing.annotations,
                         !.polName = Get(ing.annotations, AnnotationNeoAuth)]]
    /\ UNCHANGED <<reviewVars, namingVars, apikeyVars, acmeVars, portalVars>>

\* The call resolves the policy in the store and compiles its snippets.
Resolve(c) ==
    /\ calls[c].pc = "resolve"
    /\ LET polName == calls[c].polName
           cn == CanonicalName(polName, calls[c].ar.object.namespace)
           pg == GetConfig(policies, cn.name)
           gs == genSnippets(cn.name, pg.cfg, agentAddress)
       IN  calls' = [calls EXCEPT ![c] =
              IF polName = <<>> THEN [@ EXCEPT !.pc = "diff"]
              ELSE IF cn.err # "" THEN [@ EXCEPT !.pc = "done", !.result = Failed(cn.err)]
              ELSE IF pg.err # "" THEN [@ EXCEPT !.pc = "done", !.result = Failed(pg.err)]
              ELSE IF gs.err # "" THEN [@ EXCEPT !.pc = "done", !.result = Failed(gs.err)]
              ELSE [@ EXCEPT !.pc = "diff", !.snippets = gs.snippets]]
    /\ UNCHANGED <<reviewVars, namingVars, apikeyVars, acmeVars, portalVars>>

\* The call merges, compares, writes its map and returns.
Diff(c) ==
    /\ calls[c].pc = "diff"
    /\ LET anno == calls[c].annotations
           snippets == mergeSnippets(snippetsOf(calls, c), anno)
           set == setAnnotations(anno, snippets)
       IN  calls' = [calls EXCEPT ![c] =
              IF noPatchRequired(anno, snippets)
              THEN [@ EXCEPT !.pc = "done", !.result = NoPatch]
              ELSE IF set.panic
              THEN [@ EXCEPT !.pc = "done",
                             !.result = [err |-> "", patch |-> <<>>, panic |-> TRUE]]
              ELSE [@ EXCEPT !.pc = "done", !.annotations = set.anno,
                             !.result = [err |-> "", patch |-> ingressPatch(set.anno),
                                         panic |-> FALSE]]]
    /\ UNCHANGED <<reviewVars, namingVars, apikeyVars, acmeVars, portalVars>>

\* The webhook has answered; the goroutine serves another request.
Return(c) ==
    /\ calls[c].pc = "done"
    /\ calls' = [calls EXCEPT ![c] = IdleCall]
    /\ UNCHANGED <<reviewVars, namingVars, apikeyVars, acmeVars, portalVars>>

NextConcurrent ==
    \/ \E c \in 1..MaxCalls : \E req \in ConcurrentRequests : Begin(c, req)
    \/ \E c \in 1..MaxCalls : Unmarshal(c)
    \/ \E c \in 1..MaxCalls : Resolve(c)
    \/ \E c \in 1..MaxCalls : Diff(c)
    \/ \E c \in 1..MaxCalls : Return(c)

\* Review calls on different requests, interleaved, against one store.
SpecConcurrent == InitConcurrent /\ [][NextConcurrent]_vars

\* ------------------------------------------------------------ ACME runs
MaxRoutes == 2

HostRules ==
    { <<"Host(", "test.localhost", ")">>,
      <<"Host(", "TEST2.localhost", ")">>,
      <<"Host(", "test.localhost", ",", "test2.localhost", ")">>,
      <<"Host(", "test2.localhost", ")", "||", "Host(", "TEST.localhost", ")">>,
      <<"Path(", "/", ")">> }

RouteLists == UNION { [1..n -> [Match : HostRules]] : n \in 0..MaxRoutes }

TLSDomainLists ==
    { <<>>,
      <<[Main |-> "test2.localhost", SANs |-> <<"TEST.localhost", "test2.localhost">>]>>,
      <<[Main |-> "test.localhost", SANs |-> <<>>]>> }

SecretNames == {"missing-secret", "secret", "secret2", "user-secret"}

SyncedIngressRoutes ==
    [HasTLS : {TRUE}, Namespace : {"ns"},
     TLS : [SecretName : SecretNames, Domains : TLSDomainLists],
     Routes : RouteLists]
    \cup
    [HasTLS : {FALSE}, Namespace : {"ns"},
     TLS : {[SecretName |-> "", Domains |-> <<>>]},
     Routes : RouteLists]

InitSync ==
    /\ InitReview
    /\ InitNaming
    /\ InitAPIKey
    /\ InitCalls
    /\ InitACME
    /\ InitPortal

\* The controller syncs an IngressRoute: syncIngressRoute hands its requests
\* to the issuer.
Sync(ingRoute) ==
    /\ ~acmeSync.synced
    /\ acmeSync' = [synced |-> TRUE, ingRoute |-> ingRoute]
    /\ issuerCalls' = syncIngressRoute(ingRoute, secrets)
    /\ UNCHANGED secrets
    /\ UNCHANGED <<reviewVars, namingVars, apikeyVars, concVars, portalVars>>

\* The issuer obtains the certificate of a request and stores it in the
\* request's secret, labelled as managed and annotated with its domains.
Obtain ==
    /\ acmeSync.synced
    /\ issuerCalls # <<>>
    /\ LET req == Head(issuerCalls)
       IN  secrets' = [n \in DOMAIN secrets \cup {req.SecretName} |->
                          IF n = req.SecretName
                          THEN ManagedSecret(joinDomains(req.Domains))
                          ELSE secrets[n]]
    /\ issuerCalls' = Tail(issuerCalls)
    /\ acmeSync' = NoSync
    /\ UNCHANGED <<reviewVars, namingVars, apikeyVars, concVars, portalVars>>

\* The sync is over, the next event may come.
EndSync ==
    /\ acmeSync.synced
    /\ issuerCalls = <<>>
    /\ acmeSync' = NoSync
    /\ UNCHANGED <<secrets, issuerCalls>>
    /\ UNCHANGED <<reviewVars, namingVars, apikeyVars, concVars, portalVars>>

NextSync ==
    \/ \E ingRoute \in SyncedIngressRoutes : Sync(ingRoute)
    \/ Obtain
    \/ EndSync

SpecSync == InitSync /\ [][NextSync]_vars

\* ------------------------------------------------------------ developer portal runs
MaxGroups == 2

testEmail == "john.doe@example.com"
testTokenName == "my-token"

Groups == {"supplier", "developer"}

\* An API of the gateway or of a collection.
PortalAPIEntry(name, pathPrefix, groups) ==
    [Name |-> name, PathPrefix |-> <<pathPrefix>>, authorizedGroups |-> groups]

\* The APIs of the gateway: two of them share their name across namespaces.
GatewayAPIs ==
    { [k \in ks |-> PortalAPIEntry(IF k = "toys@default" THEN "toys" ELSE "managers",
                                   IF k = "toys@default" THEN "/toys" ELSE "/managers",
                                   g[k])] :
          ks \in SUBSET {"managers@people-ns", "managers@default", "toys@default"},
          g \in [{"managers@people-ns", "managers@default", "toys@default"} ->
                     {{"supplier"}, {"developer"}}] }

ProductsAPIs ==
    ("books@products-ns" :> PortalAPIEntry("books", "/books", {"supplier"}))
    @@ ("toys@products-ns" :> PortalAPIEntry("toys", "/toys", {"developer"}))

GatewayCollections ==
    { [n \in ns |-> [PathPrefix |-> <<"/products">>, APIs |-> ProductsAPIs,
                     authorizedGroups |-> g]] :
          ns \in SUBSET {"products"}, g \in {{"supplier"}, {"developer"}} }

Portals == { [Gateway |-> [Collections |-> c, APIs |-> a]] :
                 c \in GatewayCollections, a \in GatewayAPIs }

PlatformErrors ==
    { NilError, APIError(StatusNotFound, FALSE), APIError(StatusConflict, TRUE), OtherError }

PortalEnvs ==
    [platformErr : PlatformErrors, tokens : {<<"token-1", "token-2">>}, token : {"token"},
     specFetch : {"ok", "fetch error", "bad server URL"}]

GroupLists == UNION { [1..n -> Groups] : n \in 0..MaxGroups }

TokenBodies ==
    { [valid |-> TRUE, name |-> testTokenName, suspend |-> TRUE],
      [valid |-> TRUE, name |-> testTokenName, suspend |-> FALSE],
      [valid |-> FALSE, name |-> "", suspend |-> FALSE] }

PortalHeaders ==
    { [x \in {headerHubGroups} |-> <<"supplier">>],
      [x \in {headerHubEmail, headerHubGroups} |->
           IF x = headerHubEmail THEN <<testEmail>> ELSE <<"supplier">>],
      [x \in {headerHubEmail} |-> <<"">>] }

TokenRequests ==
    { [received |-> TRUE, Method |-> rt[1], Route |-> rt[2], Header |-> hd, Body |-> b,
       collection |-> "", api |-> ""] :
          rt \in { <<"GET", "/tokens">>, <<"POST", "/tokens">>,
                   <<"POST", "/tokens/suspend">>, <<"DELETE", "/tokens">> },
          hd \in PortalHeaders, b \in TokenBodies }

APIRequests ==
    { [received |-> TRUE, Method |-> "GET", Route |-> rt[1],
       Header |-> IF g = <<>> THEN NoHeaders ELSE [x \in {headerHubGroups} |-> g],
       Body |-> [valid |-> FALSE, name |-> "", suspend |-> FALSE],
       collection |-> rt[2], api |-> rt[3]] :
          rt \in { <<"/apis", "", "">> }
                 \cup { <<"/apis/{api}", "", a>> :
                            a \in {"managers@people-ns", "managers@default", "toys@default",
                                   "unknown@default"} }
                 \cup { <<"/collections/{collection}/apis/{api}", "products", a>> :
                            a \in {"books@products-ns", "unknown@default"} },
          g \in GroupLists }

PortalRequests == TokenRequests \cup APIRequests

InitPortalAPI ==
    /\ InitReview /\ ar.kind = IngressKind
    /\ InitNaming
    /\ InitAPIKey
    /\ InitCalls
    /\ InitACME
    /\ portal \in Portals
    /\ portalEnv \in PortalEnvs
    /\ portalReq = NoPortalRequest
    /\ portalResp = NewRecorder
    /\ platformCalls = <<>>

\* PortalAPI.ServeHTTP: the router receives a request.
PortalReceive(r) ==
    /\ ~portalReq.received
    /\ portalReq' = r
    /\ UNCHANGED <<portal, portalEnv, portalResp, platformCalls>>
    /\ UNCHANGED <<reviewVars, namingVars, apikeyVars, concVars, acmeVars>>

Routed(method, route) ==
    /\ portalReq.received
    /\ ~portalResp.wroteHeader
    /\ portalReq.Method = method
    /\ portalReq.Route = route

\* handleListTokens runs to its return.
ListTokens ==
    /\ Routed("GET", "/tokens")
    /\ portalResp' = handleListTokens(portalReq, portalEnv).rw
    /\ platformCalls' = handleListTokens(portalReq, portalEnv).calls
    /\ UNCHANGED <<portal, portalEnv, portalReq>>
    /\ UNCHANGED <<reviewVars, namingVars, apikeyVars, concVars, acmeVars>>

\* handleCreateToken runs to its return.
CreateToken ==
    /\ Routed("POST", "/tokens")
    /\ portalResp' = handleCreateToken(portalReq, portalEnv).rw
    /\ platformCalls' = handleCreateToken(portalReq, portalEnv).calls
    /\ UNCHANGED <<portal, portalEnv, portalReq>>
    /\ UNCHANGED <<reviewVars, namingVars, apikeyVars, concVars, acmeVars>>

\* handleSuspendToken runs to its return.
SuspendToken ==
    /\ Routed("POST", "/tokens/suspend")
    /\ portalResp' = handleSuspendToken(portalReq, portalEnv).rw
    /\ platformCalls' = handleSuspendToken(portalReq, portalEnv).calls
    /\ UNCHANGED <<portal, portalEnv, portalReq>>
    /\ UNCHANGED <<reviewVars, namingVars, apikeyVars, concVars, acmeVars>>

\* handleDeleteToken runs to its return.
DeleteToken ==
    /\ Routed("DELETE", "/tokens")
    /\ portalResp' = handleDeleteToken(portalReq, portalEnv).rw
    /\ platformCalls' = handleDeleteToken(portalReq, portalEnv).calls
    /\ UNCHANGED <<portal, portalEnv, portalReq>>
    /\ UNCHANGED <<reviewVars, namingVars, apikeyVars, concVars, acmeVars>>

\* handleListAPIs runs to its return.
ListAPIs ==
    /\ Routed("GET", "/apis")
    /\ \E resp \in buildListResp(portal, HeaderValues(portalReq.Header, headerHubGroups)) :
           portalResp' =
               ResponseEncode(
                   ResponseWriteHeader(
                       ResponseSetHeader(NewRecorder, "Content-Type", "application/json"),
                       StatusOK),
                   [kind |-> "list", list |-> resp])
    /\ UNCHANGED <<portal, portalEnv, portalReq, platformCalls>>
    /\ UNCHANGED <<reviewVars, namingVars, apikeyVars, concVars, acmeVars>>

\* handleGetAPISpec runs to its return.
GetAPISpec ==
    /\ Routed("GET", "/apis/{api}")
    /\ portalResp' = handleGetAPISpec(portalReq, portal, portalEnv)
    /\ UNCHANGED <<portal, portalEnv, portalReq, platformCalls>>
    /\ UNCHANGED <<reviewVars, namingVars, apikeyVars, concVars, acmeVars>>

\* handleGetCollectionAPISpec runs to its return.
GetCollectionAPISpec ==
    /\ Routed("GET", "/collections/{collection}/apis/{api}")
    /\ portalResp' = handleGetCollectionAPISpec(portalReq, portal, portalEnv)
    /\ UNCHANGED <<portal, portalEnv, portalReq, platformCalls>>
    /\ UNCHANGED <<reviewVars, namingVars, apikeyVars, concVars, acmeVars>>

NextPortalAPI ==
    \/ \E r \in PortalRequests : PortalReceive(r)
    \/ ListTokens
    \/ CreateToken
    \/ SuspendToken
    \/ DeleteToken
    \/ ListAPIs
    \/ GetAPISpec
    \/ GetCollectionAPISpec

SpecPortalAPI == InitPortalAPI /\ [][NextPortalAPI]_vars

\* ------------------------------------------------------------ properties
Reviewed == pc = "reviewed" /\ ~isTraefikV1Alpha1IngressRoute(ar.kind)

RouteReviewed == pc = "reviewed" /\ isTraefikV1Alpha1IngressRoute(ar.kind)

Observed == ar.object.annotations

\* The annotation values Review wants: the policy's compiled snippets merged
\* with the observed annotations, when the policy resolves.
Resolves(req, store) ==
    LET polName == Get(req.object.annotations, AnnotationNeoAuth)
        cn == CanonicalName(polName, req.object.namespace)
    IN  /\ req.object.parseable
        /\ polName # <<>>
        /\ cn.err = ""
        /\ GetConfig(store, cn.name).err = ""
        /\ genSnippets(cn.name, GetConfig(store, cn.name).cfg, agentAddress).err = ""

Compiled(req, store) ==
    LET polName == Get(req.object.annotations, AnnotationNeoAuth)
        cn == CanonicalName(polName, req.object.namespace)
    IN  IF polName = <<>> THEN zeroSnippets
        ELSE genSnippets(cn.name, GetConfig(store, cn.name).cfg, agentAddress).snippets

SnippetField(sn, k) ==
    IF k = AuthURLKey THEN sn.AuthURL
    ELSE IF k = ConfigurationSnippetKey THEN sn.ConfigurationSnippet
    ELSE IF k = ServerSnippetsKey THEN sn.ServerSnippets
    ELSE sn.LocationSnippets

HasToken(s, t) == \E i \in 1..Len(s) : s[i] = t

HasHubContent(s) == HasToken(s, hubSnippetTokenStart) \/ HasToken(s, hubSnippetTokenEnd)

\* C1: Nginx review is idempotent. A review of the object with the previous
\* review's patch applied, against the same Policy Store, succeeds and emits
\* no patch; and a review of an object whose four managed annotations already
\* equal the values compiled for its policy emits no patch.
C1_Idempotent ==
    /\ (Reviewed /\ applied) => (rv.err = "" /\ ~rv.panic /\ rv.patch = <<>>)
    /\ (Reviewed /\ Resolves(ar, policies)
          /\ \A k \in ManagedKeys :
                Get(Observed, k) = SnippetField(Compiled(ar, policies), k))
       => (rv.err = "" /\ rv.patch = <<>>)

\* A patched object that holds user text and the agent's block is reviewed again.
C1_Witness ==
    /\ Reviewed /\ applied /\ rv.patch = <<>>
    /\ Resolves(ar, policies)
    /\ HasToken(Get(Observed, ConfigurationSnippetKey), "user-directive")
    /\ HasHubContent(Get(Observed, ConfigurationSnippetKey))

\* C2: a review that completes without error returns no patch exactly when
\* each of the four managed annotations of the observed object equals the
\* desired merged value, an absent annotation counting as the empty string.
C2_NoPatchIffEqual ==
    (Reviewed /\ rv.err = "" /\ ~rv.panic) =>
        LET desired == mergeSnippets(Compiled(ar, policies), Observed) IN
        (rv.patch = <<>>) <=>
            (\A k \in ManagedKeys : Get(Observed, k) = SnippetField(desired, k))

\* No patch for an object whose snippets are non-empty and already as desired,
\* with one managed key absent and desired empty.
C2_Witness ==
    /\ Reviewed /\ rv.err = "" /\ rv.patch = <<>>
    /\ Resolves(ar, policies)
    /\ HasHubContent(Get(Observed, LocationSnippetsKey))
    /\ Get(Observed, AuthURLKey) # <<>>

\* C3: every patch carries, unchanged, every annotation of the observed object
\* whose key is not one of the four managed keys, and adds no key other than
\* the managed ones.
C3_ForeignAnnotationsKept ==
    (Reviewed /\ rv.patch # <<>>) =>
        LET value == rv.patch[1].value IN
        /\ \A k \in (DOMAIN Observed.kv) \ ManagedKeys :
              k \in DOMAIN value /\ value[k] = Observed.kv[k]
        /\ \A k \in (DOMAIN value) \ ManagedKeys : k \in DOMAIN Observed.kv

\* A patch for an object that carries a custom annotation and an empty ACP
\* annotation, with a managed key removed by the patch.
C3_Witness ==
    /\ Reviewed /\ rv.patch # <<>>
    /\ Has(Observed, CustomKey)
    /\ Has(Observed, AnnotationNeoAuth) /\ Get(Observed, AnnotationNeoAuth) = <<>>
    /\ Has(Observed, AuthURLKey) /\ AuthURLKey \notin DOMAIN rv.patch[1].value

\* The object carries values an earlier compiled policy left: an auth-url, or
\* a snippet holding the agent's block.
AgentManaged(anno) ==
    \/ Get(anno, AuthURLKey) # <<>>
    \/ \E k \in SnippetKeys : HasHubContent(Get(anno, k))

\* C4: removal on policy clearing. With an empty or absent ACP annotation, an
\* object that still carries agent-managed values gets a patch whose map has
\* no auth-url key and no agent-generated snippet content; an object that
\* carries none gets no patch.
C4_RemovalOnClearing ==
    (Reviewed /\ ar.object.parseable /\ Get(Observed, AnnotationNeoAuth) = <<>>) =>
        IF AgentManaged(Observed)
        THEN /\ rv.err = "" /\ rv.patch # <<>>
             /\ AuthURLKey \notin DOMAIN rv.patch[1].value
             /\ \A k \in SnippetKeys \cap DOMAIN rv.patch[1].value :
                    ~HasHubContent(rv.patch[1].value[k])
        ELSE rv.err = "" /\ rv.patch = <<>>

\* The ACP annotation was removed from an object holding an auth-url and a
\* snippet with user text and the agent's block; the patch keeps the user text.
C4_Witness ==
    /\ Reviewed /\ ~Has(Observed, AnnotationNeoAuth)
    /\ Get(Observed, AuthURLKey) # <<>>
    /\ HasHubContent(Get(Observed, ServerSnippetsKey))
    /\ rv.patch # <<>>
    /\ ServerSnippetsKey \in DOMAIN rv.patch[1].value
    /\ rv.patch[1].value[ServerSnippetsKey] = <<"user-directive">>

\* The annotations of the admitted Ingress: the patch value when a patch is
\* emitted, the observed annotations otherwise.
Admitted == IF rv.patch # <<>> THEN rv.patch[1].value ELSE Observed.kv

\* C5: after a review that completes without error, the admitted annotations
\* bind none of the four managed keys to the empty string.
C5_NoEmptyManagedValue ==
    (Reviewed /\ rv.err = "" /\ ~rv.panic) =>
        \A k \in ManagedKeys \cap DOMAIN Admitted : Admitted[k] # <<>>

\* C6: a patch is a list of exactly one operation, a "replace" of the whole
\* mutated field: /metadata/annotations from the Nginx Ingress reviewer,
\* /spec/routes from the Traefik IngressRoute reviewer.
C6_SingleWholeFieldReplace ==
    (pc = "reviewed" /\ rv.patch # <<>>) =>
        /\ Len(rv.patch) = 1
        /\ rv.patch[1].op = "replace"
        /\ rv.patch[1].path = IF isTraefikV1Alpha1IngressRoute(ar.kind)
                              THEN "/spec/routes" ELSE "/metadata/annotations"

\* The Nginx reviewer patches an object in which one snippet changes, one
\* key is added and one is removed at once.
C6_Witness ==
    /\ Reviewed /\ rv.patch # <<>>
    /\ Resolves(ar, policies)
    /\ ~Has(Observed, AuthURLKey) /\ AuthURLKey \in DOMAIN rv.patch[1].value
    /\ Has(Observed, ServerSnippetsKey)
    /\ rv.patch[1].value[ServerSnippetsKey] # Observed.kv[ServerSnippetsKey]

IsIngressKind(k) == isNetV1Ingress(k) \/ isNetV1Beta1Ingress(k) \/ isExtV1Beta1Ingress(k)

ClassName == ar.object.ingressClassName

ClassAnno == Get(ar.object.annotations, annotationIngressClass)

NginxFlavor(name) ==
    /\ name \in DOMAIN ingressClasses.controllers
    /\ ingressClasses.controllers[name] \in
          {ControllerTypeNginxOfficial, ControllerTypeNginxCommunity}

\* C7: for an Ingress-kind request where no lookup fails, CanReview follows
\* the class precedence: the class-name field, looked up in the registry;
\* else the legacy annotation, true for the Nginx literal whatever the
\* registry holds, else looked up; else the registry's default controller.
C7_ClassPrecedence ==
    (cr.called /\ IsIngressKind(ar.kind) /\ ar.object.parseable
        /\ ~ingressClasses.defaultErr) =>
        /\ cr.nginx.err = ""
        /\ cr.nginx.ok <=>
              IF ClassName # <<>> THEN NginxFlavor(ClassName)
              ELSE IF ClassAnno # <<>>
                   THEN ClassAnno = <<"nginx">> \/ NginxFlavor(ClassAnno)
              ELSE ingressClasses.defaultCtrlr \in
                      {ControllerTypeNginxOfficial, ControllerTypeNginxCommunity}

\* A class-name field of a Traefik class overrides the Nginx literal in the
\* annotation, under an Nginx default controller.
C7_Witness ==
    /\ cr.called /\ IsIngressKind(ar.kind) /\ ~ingressClasses.defaultErr
    /\ ClassName = <<"my-class">>
    /\ GetController(ingressClasses, ClassName) = ControllerTypeTraefik
    /\ ClassAnno = <<"nginx">>
    /\ ingressClasses.defaultCtrlr = ControllerTypeNginxCommunity
    /\ ~cr.nginx.ok

\* C8: a class name or class annotation that the registry resolves to no
\* Nginx flavor makes CanReview return false with no error.
C8_UnknownClassIsNoError ==
    (cr.called /\ IsIngressKind(ar.kind) /\ ar.object.parseable
        /\ \/ ClassName # <<>> /\ ~NginxFlavor(ClassName)
           \/ ClassName = <<>> /\ ClassAnno # <<>> /\ ClassAnno # <<"nginx">>
                /\ ~NginxFlavor(ClassAnno))
    => (~cr.nginx.ok /\ cr.nginx.err = "")

\* C9: at most one of the two reviewers claims a request: the Nginx reviewer
\* only Ingress kinds, the Traefik reviewer only traefik.containo.us/v1alpha1
\* IngressRoute, and any other kind is claimed by neither, with no error.
C9_AtMostOneReviewer ==
    cr.called =>
        /\ ~(cr.nginx.ok /\ cr.traefik.ok)
        /\ cr.nginx.ok => ar.kind \in {GVK("networking.k8s.io", "v1", "Ingress"),
                                        GVK("networking.k8s.io", "v1beta1", "Ingress"),
                                        GVK("extensions", "v1beta1", "Ingress")}
        /\ cr.traefik.ok => ar.kind = GVK("traefik.containo.us", "v1alpha1", "IngressRoute")
        /\ cr.traefik.err = ""
        /\ (~IsIngressKind(ar.kind) /\ ~isTraefikV1Alpha1IngressRoute(ar.kind)) =>
              (~cr.nginx.ok /\ ~cr.traefik.ok /\ cr.nginx.err = "")

\* An IngressRoute under an Nginx default controller: Traefik's reviewer
\* alone claims it.
C9_Witness ==
    /\ cr.called
    /\ isTraefikV1Alpha1IngressRoute(ar.kind)
    /\ ingressClasses.defaultCtrlr = ControllerTypeNginxOfficial
    /\ ~ingressClasses.defaultErr /\ ar.object.parseable
    /\ cr.traefik.ok /\ ~cr.nginx.ok

\* C10: an error is never accompanied by a positive result: a failing
\* CanReview answers false, a failing Review returns no patch.
C10_ErrorMeansNoResult ==
    /\ (cr.called /\ cr.nginx.err # "") => ~cr.nginx.ok
    /\ (Reviewed /\ rv.err # "") => rv.patch = <<>>

\* The default-controller lookup fails for an object whose annotation is the
\* Nginx literal, and the review of the same request fails on its policy name.
C10_Witness ==
    /\ cr.called /\ cr.nginx.err = "get default controller" /\ ~cr.nginx.ok
    /\ ClassAnno = <<"nginx">>
    /\ Reviewed /\ rv.err = "invalid ACP name" /\ rv.patch = <<>>

\* The ACP annotation of the reviewed object names, well-formedly, a policy
\* the Policy Store does not hold.
NamesMissingPolicy(req, store) ==
    LET polName == Get(req.object.annotations, AnnotationNeoAuth)
        cn == CanonicalName(polName, req.object.namespace)
    IN  /\ req.object.parseable
        /\ polName # <<>>
        /\ cn.err = ""
        /\ GetConfig(store, cn.name).err # ""

\* The same request with its ACP annotation taken away.
WithoutPolicy(req) ==
    [req EXCEPT !.object.annotations = Delete(@, AnnotationNeoAuth)]

\* C11: a review of an Ingress whose ACP annotation names a policy missing
\* from the Policy Store does not fail: it answers as the review of the same
\* object with no policy would, with no error.
C11_MissingPolicyNotEscalated ==
    (Reviewed /\ NamesMissingPolicy(ar, policies)) =>
        /\ rv.err = ""
        /\ rv.patch = NginxIngressReview(WithoutPolicy(ar), policies).patch

\* ------------------------------------------------------------ Traefik properties
PrevPolicy == oldIngressRoutePolicyName(ar.oldObject)

NewPolicy == Get(ar.object.annotations, AnnotationNeoAuth)

\* The reference to the Middleware the agent manages for the policy a user
\* wrote as polName on the reviewed object.
ManagedRef(polName) ==
    MiddlewareRef(middlewareName(CanonicalName(polName, ar.object.namespace).name),
                  ar.object.namespace)

\* The routes of the admitted IngressRoute.
AdmittedRoutes == IF rv.patch # <<>> THEN rv.patch[1].value ELSE ar.object.routes

SameRouteFields(before, after) ==
    /\ after.Match = before.Match
    /\ after.Kind = before.Kind
    /\ after.Priority = before.Priority
    /\ after.Services = before.Services

\* C12: reference preservation. On an update from policy Pold to policy Pnew,
\* every route that holds the reference to Pold's Middleware comes out with
\* that reference replaced, at its position, by the reference to Pnew's, every
\* other reference and every other route field as they were.
C12_ReferencePreserved ==
    (RouteReviewed /\ ar.object.parseable /\ rv.err = ""
        /\ PrevPolicy # <<>> /\ NewPolicy # <<>>) =>
        /\ Len(AdmittedRoutes) = Len(ar.object.routes)
        /\ \A i \in 1..Len(ar.object.routes) :
              LET before == ar.object.routes[i]
                  after == AdmittedRoutes[i]
              IN  HasRef(before.Middlewares, ManagedRef(PrevPolicy)) =>
                    /\ SameRouteFields(before, after)
                    /\ Len(after.Middlewares) = Len(before.Middlewares)
                    /\ \A j \in 1..Len(before.Middlewares) :
                          after.Middlewares[j] =
                              IF before.Middlewares[j] = ManagedRef(PrevPolicy)
                              THEN ManagedRef(NewPolicy)
                              ELSE before.Middlewares[j]

\* The update from my-old-policy@test to my-policy@test of a route whose list
\* is the old policy's reference followed by a user's middleware.
C12_Witness ==
    /\ RouteReviewed /\ rv.err = "" /\ rv.patch # <<>>
    /\ PrevPolicy = <<"my-old-policy", "@", "test">>
    /\ NewPolicy = <<"my-policy", "@", "test">>
    /\ ar.object.routes[1].Middlewares =
          <<MiddlewareRef(<<"zz", "-", "my-old-policy", "-", "test">>, <<"test">>),
            CustomMiddleware>>
    /\ rv.patch[1].value[1].Middlewares =
          <<MiddlewareRef(<<"zz", "-", "my-policy", "-", "test">>, <<"test">>),
            CustomMiddleware>>

\* C13: a route that holds no reference to the previous policy's Middleware,
\* in an object that carries an ACP annotation, comes out with the new
\* policy's reference appended at the end of its list as it was.
C13_AppendedAtEnd ==
    (RouteReviewed /\ ar.object.parseable /\ rv.err = "" /\ NewPolicy # <<>>) =>
        \A i \in 1..Len(ar.object.routes) :
            LET before == ar.object.routes[i] IN
            ~(PrevPolicy # <<>> /\ HasRef(before.Middlewares, ManagedRef(PrevPolicy))) =>
                /\ rv.patch # <<>>
                /\ Len(rv.patch[1].value) = Len(ar.object.routes)
                /\ SameRouteFields(before, rv.patch[1].value[i])
                /\ rv.patch[1].value[i].Middlewares =
                      before.Middlewares \o <<ManagedRef(NewPolicy)>>

\* A policy newly set on an object whose second route holds a user's middleware.
C13_Witness ==
    /\ RouteReviewed /\ rv.err = "" /\ rv.patch # <<>>
    /\ PrevPolicy = <<>>
    /\ NewPolicy = <<"my-policy", "@", "test">>
    /\ ar.object.routes[1].Middlewares = <<>>
    /\ ar.object.routes[2].Middlewares = <<CustomMiddleware>>
    /\ rv.patch[1].value[2].Middlewares =
          <<CustomMiddleware,
            MiddlewareRef(<<"zz", "-", "my-policy", "-", "test">>, <<"test">>)>>

\* The Middleware the cluster holds for the policy of the reviewed object is
\* the forward-auth configuration derived from the policy as the store has it.
MiddlewareCurrent ==
    LET cn == CanonicalName(NewPolicy, ar.object.namespace).name
        key == <<ar.object.namespace, middlewareName(cn)>>
    IN  /\ key \in DOMAIN middlewares
        /\ cn \in DOMAIN policies
        /\ policies[cn] # NotFound
        /\ middlewares[key].address = agentAddress \o <<"/">> \o cn
        /\ middlewares[key].authResponseHeaders =
              policies[cn].fwdHeaders
                  \o (IF policies[cn].strip THEN <<"Authorization">> ELSE <<>>)

\* C14: a patch for an object with an ACP annotation is only returned with
\* the policy's Middleware in place in the object's namespace, configured
\* from the current policy, whether it had to be created or updated; a review
\* that fails returns no patch and leaves the Middlewares as they were.
C14_MiddlewareBeforePatch ==
    /\ []((RouteReviewed /\ rv.patch # <<>> /\ NewPolicy # <<>>) => MiddlewareCurrent)
    /\ [][(pc = "submitted" /\ pc' = "reviewed" /\ isTraefikV1Alpha1IngressRoute(ar.kind)
             /\ rv'.err # "")
          => (rv'.patch = <<>> /\ middlewares' = middlewares)]_vars

\* A patch for my-policy@test, a basic-auth policy by now, while the cluster
\* also holds the Middleware of my-old-policy@test.
C14_Witness ==
    /\ RouteReviewed /\ rv.patch # <<>>
    /\ NewPolicy = <<"my-policy", "@", "test">>
    /\ policies[NewPolicy].type = "basicAuth"
    /\ <<<<"test">>, <<"zz", "-", "my-old-policy", "-", "test">>>> \in DOMAIN middlewares
    /\ middlewares[<<<<"test">>, <<"zz", "-", "my-policy", "-", "test">>>>]
          .authResponseHeaders = <<>>

\* The policy name and the namespace of an identity name@namespace.
NameOf(id) == SubSeq(id, 1, FirstAt(id, 1) - 1)

NamespaceOf(id) == SubSeq(id, FirstAt(id, 1) + 1, Len(id))

\* C15: the managed-resource name is "zz", the policy name and the namespace
\* joined by hyphens, and two different canonical policy identities never
\* get the same name.
C15_NameCollisionResistant ==
    naming.derived =>
        /\ naming.nameA = <<"zz", "-">> \o NameOf(naming.a) \o <<"-">> \o NamespaceOf(naming.a)
        /\ naming.nameB = <<"zz", "-">> \o NameOf(naming.b) \o <<"-">> \o NamespaceOf(naming.b)
        /\ naming.a # naming.b => naming.nameA # naming.nameB

\* ------------------------------------------------------------ API-key properties
Constructed == akHandler.called

Served == akResponse # NoResponse

\* C16: NewHandler fails, returning no handler, when no lookup location is
\* configured, when a key entry has an empty ID or an empty Value, or when two
\* entries share an ID; on every other configuration it succeeds.
C16_NewHandlerFailsExactly ==
    Constructed =>
        LET noLocation == akConfig.Header = "" /\ akConfig.Query = "" /\ akConfig.Cookie = ""
            emptyField == \E i \in 1..Len(akConfig.Keys) :
                              akConfig.Keys[i].ID = "" \/ akConfig.Keys[i].Value = <<>>
            sharedID == \E i, j \in 1..Len(akConfig.Keys) :
                            i # j /\ akConfig.Keys[i].ID = akConfig.Keys[j].ID
        IN  /\ akHandler.h.isNil <=> (noLocation \/ emptyField \/ sharedID)
            /\ akHandler.h.isNil <=> akHandler.h.err # ""

\* Two well-formed entries with one ID and different values, on a
\* configuration with a lookup location: no handler.
C16_Witness ==
    /\ Constructed /\ akHandler.h.isNil
    /\ akConfig.Cookie # ""
    /\ Len(akConfig.Keys) = 2
    /\ akConfig.Keys[1].ID = "user-1" /\ akConfig.Keys[2].ID = "user-1"
    /\ akConfig.Keys[1].Value # <<>> /\ akConfig.Keys[2].Value # <<>>
    /\ akConfig.Keys[1].Value # akConfig.Keys[2].Value

\* The value each lookup location holds for the handler, "" when the location
\* is not configured or holds nothing: 1 the header, 2 the query parameter of
\* the original-URI header, 3 the cookie.
LocationValue(loc) ==
    LET h == akHandler.h
        uri == originalURI(akRequest.Header)
    IN  IF loc = 1
        THEN IF h.header # "" THEN HeaderGet(akRequest.Header, h.header) ELSE <<>>
        ELSE IF loc = 2
        THEN IF h.query # "" /\ urlParse(uri).err = ""
             THEN queryGet(urlParse(uri).rawQuery, h.query) ELSE <<>>
        ELSE IF h.cookie # "" /\ h.cookie \in DOMAIN akRequest.Cookies
             THEN akRequest.Cookies[h.cookie] ELSE <<>>

\* The first location, in priority order, that holds a value; 0 when none does.
FirstLocation ==
    IF \E loc \in 1..3 : LocationValue(loc) # <<>>
    THEN CHOOSE loc \in 1..3 :
            /\ LocationValue(loc) # <<>>
            /\ \A k \in 1..(loc - 1) : LocationValue(k) = <<>>
    ELSE 0

\* The query location is reached and its original-URI header does not parse.
UnparsableURI ==
    /\ LocationValue(1) = <<>>
    /\ akHandler.h.query # ""
    /\ originalURI(akRequest.Header) # <<>>
    /\ urlParse(originalURI(akRequest.Header)).err # ""

\* C17 as stated: the candidate the handler evaluates is the value of the
\* first configured location, header then query then cookie, that holds a
\* non-empty value; with no such location there is no candidate.
C17_FirstConfiguredValue ==
    Served =>
        IF FirstLocation = 0 THEN akLookup.err # ""
        ELSE akLookup.err = "" /\ akLookup.apiKey = LocationValue(FirstLocation)

\* C17, amended: as stated, unless the query location is reached with an
\* original-URI header that fails URL parsing; the lookup then ends with an
\* error and no candidate, whatever the cookie holds.
C17_FirstConfiguredValueUnlessBadURI ==
    Served =>
        IF UnparsableURI THEN akLookup.err # "" /\ akLookup.apiKey = <<>>
        ELSE IF FirstLocation = 0 THEN akLookup.err # ""
        ELSE akLookup.err = "" /\ akLookup.apiKey = LocationValue(FirstLocation)

\* A handler with header lookup only serves a request with no header and a
\* valid key in its cookie: no candidate, 401.
C17_Witness ==
    /\ Served
    /\ akHandler.h.header # "" /\ akHandler.h.query = "" /\ akHandler.h.cookie = ""
    /\ HeaderGet(akRequest.Header, "Api-Key") = <<>>
    /\ "api-key" \in DOMAIN akRequest.Cookies
    /\ Shake256Hex(akRequest.Cookies["api-key"]) \in DOMAIN akHandler.h.keys
    /\ akLookup.err # ""
    /\ akResponse.status = 401

Matches(v) == v # <<>> /\ Shake256Hex(v) \in DOMAIN akHandler.h.keys

\* C18: no fallback. When the first location that holds a value holds one
\* that matches no key, the request is rejected as unauthenticated, also when
\* a location of lower priority holds a valid key.
C18_NoFallback ==
    (Served /\ FirstLocation # 0 /\ ~Matches(LocationValue(FirstLocation))
        /\ \E lower \in (FirstLocation + 1)..3 : Matches(LocationValue(lower)))
    => (akResponse.status = 401 /\ akResponse.header = NoHeaders)

\* An unknown key in the header, a valid one in the queried URI and in the cookie.
C18_Witness ==
    /\ Served
    /\ LocationValue(1) = <<"bogus">>
    /\ Matches(LocationValue(2)) /\ Matches(LocationValue(3))
    /\ akResponse.status = 401

\* The headers the forwarding rules derive from the metadata of the key the
\* candidate matches.
ForwardedHeaders ==
    LET h == akHandler.h
        md == h.keys[Shake256Hex(akLookup.apiKey)].Metadata
        rules == h.fwdHeaders.kv
    IN  IF h.fwdHeaders.isNil THEN NoHeaders
        ELSE [hdrName \in {x \in DOMAIN rules : rules[x] \in DOMAIN md} |->
                 <<md[rules[hdrName]]>>]

\* C19: the answer is 401 with no body and no header when no candidate is
\* found or its hex-encoded hash is not in the key table; it is 200 only when
\* the hash matches a key, and then carries exactly the headers the forwarding
\* rules derive from that key's metadata, none without rules.
C19_RejectOrAcceptWithHeaders ==
    Served =>
        /\ (akLookup.err # "" \/ Shake256Hex(akLookup.apiKey) \notin DOMAIN akHandler.h.keys)
              => akResponse = [status |-> 401, header |-> NoHeaders, body |-> ""]
        /\ akResponse.status = 200 =>
              /\ akLookup.err = ""
              /\ Shake256Hex(akLookup.apiKey) \in DOMAIN akHandler.h.keys
              /\ akResponse.header = ForwardedHeaders
              /\ akResponse.body = ""

\* The key of user-1 in the cookie: 200 with its ID and its group forwarded.
C19_Witness ==
    /\ Served /\ akResponse.status = 200
    /\ akLookup.apiKey = <<"secret-1">>
    /\ akResponse.header = ("Id" :> <<"user-1">> @@ "Group" :> <<"admin">>)

\* C20: when the candidate matches a key and the derivation of the forwarded
\* headers fails, the answer is 500, not 401 and not 200, with none of the
\* forwarded headers.
C20_DerivationFailureIsInternal ==
    (Served /\ akLookup.err = "" /\ Shake256Hex(akLookup.apiKey) \in DOMAIN akHandler.h.keys
        /\ ~akHandler.h.fwdHeaders.isNil
        /\ PluckClaims(akHandler.h.fwdHeaders.kv,
                       akHandler.h.keys[Shake256Hex(akLookup.apiKey)].Metadata).err # "")
    => /\ akResponse.status = 500
       /\ (DOMAIN akResponse.header) \cap (DOMAIN akHandler.h.fwdHeaders.kv) = {}

\* A valid key in the header of a handler whose forwarding rule cannot be
\* evaluated.
C20_Witness ==
    /\ Served
    /\ Matches(LocationValue(1))
    /\ "Bad" \in DOMAIN akHandler.h.fwdHeaders.kv
    /\ akResponse.status = 500
    /\ akResponse.body = "Internal Server Error"

\* C21: every entry of the key table of a constructed handler has metadata
\* that binds "_id" to the entry's own ID, overriding a configured "_id", and
\* holds every other configured metadata entry of its key as configured,
\* nothing else; and serving a request leaves the handler, key table
\* included, as it was.
C21_ReservedIDAndStableTable ==
    /\ []((Constructed /\ ~akHandler.h.isNil) =>
            \A v \in DOMAIN akHandler.h.keys :
                LET entry == akHandler.h.keys[v] IN
                /\ "_id" \in DOMAIN entry.Metadata
                /\ entry.Metadata["_id"] = entry.ID
                /\ \E i \in 1..Len(akConfig.Keys) :
                      LET k == akConfig.Keys[i] IN
                      /\ k.Value = v /\ k.ID = entry.ID
                      /\ DOMAIN entry.Metadata = (DOMAIN k.Metadata.kv) \cup {"_id"}
                      /\ \A mk \in (DOMAIN k.Metadata.kv) \ {"_id"} :
                            entry.Metadata[mk] = k.Metadata.kv[mk])
    /\ [][akHandler.called => akHandler' = akHandler]_vars

\* A served request matched the key of user-3, whose configured metadata
\* has an "_id" of its own: the ID forwarded is user-3.
C21_Witness ==
    /\ Served /\ akResponse.status = 200
    /\ \E i \in 1..Len(akConfig.Keys) :
          /\ akConfig.Keys[i].ID = "user-3"
          /\ akConfig.Keys[i].Metadata.kv["_id"] = "spoof"
    /\ "Id" \in DOMAIN akResponse.header
    /\ akResponse.header["Id"] = <<"user-3">>

\* C22: reviews are independent. Whatever the interleaving, a call that has
\* returned holds the result the review of its request alone gives against
\* the same Policy Store, the request it was given is as it came, and no
\* step of a call changes the registry, the store or the reviewer.
C22_ReviewsIndependent ==
    /\ [](\A c \in 1..MaxCalls :
            calls[c].pc = "done" =>
                /\ calls[c].result = NginxIngressReview(calls[c].given, policies)
                /\ calls[c].ar = calls[c].given)
    /\ [][calls' # calls => UNCHANGED reviewVars]_vars

\* Two calls have returned at once: one with a patch for my-old-policy@test
\* that keeps the user's snippet, the other with a patch that clears a stale
\* auth-url.
C22_Witness ==
    /\ calls[1].pc = "done" /\ calls[2].pc = "done"
    /\ Get(calls[1].given.object.annotations, AnnotationNeoAuth)
          = <<"my-old-policy", "@", "test">>
    /\ calls[1].result.patch # <<>>
    /\ ~Has(calls[2].given.object.annotations, AnnotationNeoAuth)
    /\ Has(calls[2].given.object.annotations, AuthURLKey)
    /\ calls[2].result.patch # <<>>
    /\ AuthURLKey \notin DOMAIN calls[2].result.patch[1].value

\* ------------------------------------------------------------ implicit properties
\* C27: NginxIngress.CanReview returns an error for every Ingress-kind
\* request whenever the default-controller lookup fails, even when the
\* object's class name or class annotation alone decides the answer.
C27_DefaultLookupFailureAlwaysErrors ==
    (cr.called /\ IsIngressKind(ar.kind) /\ ingressClasses.defaultErr) =>
        /\ cr.nginx.err # ""
        /\ ~cr.nginx.ok
        /\ ar.object.parseable => cr.nginx.err = "get default controller"

\* The class-name field names a class the registry resolves to an Nginx
\* flavor; the lookup of the default controller fails and so does CanReview.
C27_Witness ==
    /\ cr.called /\ IsIngressKind(ar.kind) /\ ingressClasses.defaultErr
    /\ ar.object.parseable
    /\ ClassName # <<>> /\ NginxFlavor(ClassName)
    /\ cr.nginx.err = "get default controller"
    /\ ~cr.nginx.ok

\* Two entries of the configuration carry the same Value under different IDs.
SharesValue(i, j) ==
    /\ i < j
    /\ akConfig.Keys[i].Value = akConfig.Keys[j].Value
    /\ akConfig.Keys[i].ID # akConfig.Keys[j].ID

\* The last entry of the configuration with this Value.
LastWithValue(v) ==
    CHOOSE j \in 1..Len(akConfig.Keys) :
        /\ akConfig.Keys[j].Value = v
        /\ \A k \in (j + 1)..Len(akConfig.Keys) : akConfig.Keys[k].Value # v

\* A lookup location is configured, no entry has an empty field, no two
\* entries share an ID.
NothingElseWrong ==
    /\ akConfig.Header # "" \/ akConfig.Query # "" \/ akConfig.Cookie # ""
    /\ \A i \in 1..Len(akConfig.Keys) :
           akConfig.Keys[i].ID # "" /\ akConfig.Keys[i].Value # <<>>
    /\ \A i, j \in 1..Len(akConfig.Keys) :
           i # j => akConfig.Keys[i].ID # akConfig.Keys[j].ID

\* C28: NewHandler accepts two keys with different IDs and the same Value;
\* the table then holds one entry for that Value, the later key's, and a
\* request presenting the secret is authenticated as the later key.
C28_SharedValueLaterKeyWins ==
    (Constructed /\ NothingElseWrong
        /\ \E i, j \in 1..Len(akConfig.Keys) : SharesValue(i, j)) =>
        /\ ~akHandler.h.isNil
        /\ \A i, j \in 1..Len(akConfig.Keys) : SharesValue(i, j) =>
               LET v == akConfig.Keys[j].Value
               IN  /\ v \in DOMAIN akHandler.h.keys
                   /\ akHandler.h.keys[v].ID = akConfig.Keys[LastWithValue(v)].ID
        /\ Cardinality(DOMAIN akHandler.h.keys)
               = Cardinality({ akConfig.Keys[i].Value : i \in 1..Len(akConfig.Keys) })
        /\ (Served /\ akLookup.err = "" /\ Matches(akLookup.apiKey)
                /\ akHandler.h.fwdHeaders = ForwardRules) =>
               /\ akResponse.status = StatusOK
               /\ akResponse.header["Id"]
                      = <<akConfig.Keys[LastWithValue(Shake256Hex(akLookup.apiKey))].ID>>

\* user-1 and user-3 are configured in this order with the same secret; the
\* request presenting it is answered as user-3, without user-1's group.
C28_Witness ==
    /\ Served /\ akResponse.status = StatusOK
    /\ Len(akConfig.Keys) = 2
    /\ akConfig.Keys[1].ID = "user-1" /\ akConfig.Keys[2].ID = "user-3"
    /\ SharesValue(1, 2)
    /\ akLookup.apiKey = <<"secret-1">>
    /\ akHandler.h.fwdHeaders = ForwardRules
    /\ akResponse.header["Id"] = <<"user-3">>
    /\ "Group" \notin DOMAIN akResponse.header

\* The cookie the handler is configured for holds a value.
CookieValue ==
    IF akHandler.h.cookie # "" /\ akHandler.h.cookie \in DOMAIN akRequest.Cookies
    THEN akRequest.Cookies[akHandler.h.cookie]
    ELSE <<>>

\* X-Forwarded-Uri holds a URI that parses and lacks the query parameter.
ForwardedURILacksParameter ==
    LET xfu == HeaderGet(akRequest.Header, "X-Forwarded-Uri")
    IN  /\ xfu # <<>>
        /\ urlParse(xfu).err = ""
        /\ queryGet(urlParse(xfu).rawQuery, akHandler.h.query) = <<>>

\* C29: with query lookup configured and no value from the header, an
\* original URI (X-Forwarded-Uri when non-empty, else X-Original-Url) that
\* fails URL parsing ends the lookup at once: the answer is 401 and the cookie
\* is not consulted. A non-empty X-Forwarded-Uri lacking the parameter is not
\* supplemented by X-Original-Url: the cookie comes next.
C29_BadURIStopsLookup ==
    (Served /\ akHandler.h.query # "" /\ LocationValue(1) = <<>>) =>
        /\ (originalURI(akRequest.Header) # <<>>
                /\ urlParse(originalURI(akRequest.Header)).err # "") =>
               /\ akLookup.apiKey = <<>>
               /\ akLookup.err \notin {"", MissingAPIKey.err}
               /\ akResponse = WriteHeader(StatusUnauthorized, NoHeaders)
        /\ ForwardedURILacksParameter =>
               IF CookieValue # <<>>
               THEN akLookup = [err |-> "", apiKey |-> CookieValue]
               ELSE akLookup = MissingAPIKey /\ akResponse.status = StatusUnauthorized

\* X-Forwarded-Uri is empty, X-Original-Url does not parse, and the cookie
\* holds a valid key: 401.
C29_Witness ==
    /\ Served
    /\ akHandler.h.query # "" /\ akHandler.h.cookie # ""
    /\ LocationValue(1) = <<>>
    /\ HeaderGet(akRequest.Header, "X-Forwarded-Uri") = <<>>
    /\ HeaderGet(akRequest.Header, "X-Original-Url") = BadURI
    /\ Matches(CookieValue)
    /\ akLookup.apiKey = <<>>
    /\ akResponse.status = StatusUnauthorized

\* C30: NginxIngress.Review never writes into a nil annotation map. An object
\* without annotations carries no ACP annotation, its desired values are all
\* empty, and its review ends with no patch required.
C30_NoWriteToNilMap ==
    Reviewed =>
        /\ ~rv.panic
        /\ (ar.object.parseable /\ Observed.isNil) => rv = NoPatch

\* An Ingress submitted without annotations has been reviewed: no error, no
\* patch.
C30_Witness ==
    /\ Reviewed
    /\ ar.object.parseable
    /\ Observed.isNil
    /\ rv = NoPatch

\* ------------------------------------------------------------ ACME properties
Synced == acmeSync.synced

\* The lower-cased names of a list, as a set.
LowerSet(domains) == { ToLower(domains[i]) : i \in 1..Len(domains) }

WantedDomains == LowerSet(resolveDomains(acmeSync.ingRoute))

SecretOfSync == acmeSync.ingRoute.TLS.SecretName

SecretExists == SecretOfSync \in DOMAIN secrets

SecretManaged == SecretExists /\ isManagedSecret(secrets[SecretOfSync])

RecordedDomains == LowerSet(getCertificateDomains(secrets[SecretOfSync]))

\* C23: domain identity is a set. A sync requests no certificate when the
\* IngressRoute's domains and those recorded on the agent-managed secret are
\* equal after lower-casing and de-duplication, whatever their order; a
\* request it makes lists each lower-cased domain exactly once.
C23_DomainSetIdentity ==
    Synced =>
        /\ (acmeSync.ingRoute.HasTLS /\ SecretManaged /\ WantedDomains = RecordedDomains)
               => issuerCalls = <<>>
        /\ \A i \in 1..Len(issuerCalls) :
               LET ds == issuerCalls[i].Domains
               IN  /\ { ds[j] : j \in 1..Len(ds) } = WantedDomains
                   /\ Len(ds) = Cardinality(WantedDomains)

\* The routes name test2.localhost twice, once in upper case, before
\* test.localhost; secret2 records both names and nothing is requested.
C23_Witness ==
    /\ Synced
    /\ acmeSync.ingRoute.HasTLS
    /\ SecretOfSync = "secret2"
    /\ acmeSync.ingRoute.TLS.Domains = <<>>
    /\ routeDomains(acmeSync.ingRoute.Routes)
           = <<"TEST2.localhost", "test.localhost", "test2.localhost">>
    /\ SecretManaged
    /\ WantedDomains = RecordedDomains
    /\ issuerCalls = <<>>

\* C24: a sync calls the issuer at most once, and only when the IngressRoute
\* has a TLS section, its domain set is not empty, and its secret is missing
\* or is agent-managed with another domain set; a secret without the
\* managed-by label never triggers a request.
C24_IssuerCalledOnlyWhenNeeded ==
    Synced =>
        /\ Len(issuerCalls) <= 1
        /\ issuerCalls # <<>> =>
               /\ acmeSync.ingRoute.HasTLS
               /\ WantedDomains # {}
               /\ \/ ~SecretExists
                  \/ SecretManaged /\ WantedDomains # RecordedDomains
               /\ issuerCalls[1].SecretName = SecretOfSync
               /\ issuerCalls[1].Namespace = acmeSync.ingRoute.Namespace
        /\ (acmeSync.ingRoute.HasTLS /\ SecretExists /\ ~SecretManaged) => issuerCalls = <<>>

\* The managed secret records test.localhost only, the routes ask for two
\* names: one request, for that secret.
C24_Witness ==
    /\ Synced
    /\ acmeSync.ingRoute.HasTLS
    /\ SecretOfSync = "secret"
    /\ SecretManaged
    /\ RecordedDomains = {"test.localhost"}
    /\ issuerCalls = <<CertificateRequest(<<"test.localhost", "test2.localhost">>, "ns", "secret")>>

\* ------------------------------------------------------------ developer portal properties
PortalAnswered == portalReq.received /\ portalResp.wroteHeader

TokenRoute == portalReq.Route \in {"/tokens", "/tokens/suspend"}

\* The status of success of the token endpoint the request went to.
SuccessStatus ==
    IF portalReq.Route = "/tokens/suspend" THEN StatusOK
    ELSE IF portalReq.Method = "GET" THEN StatusOK
    ELSE IF portalReq.Method = "POST" THEN StatusCreated
    ELSE StatusNoContent

\* C25: on the token endpoints a request without Hub-Email is answered 400
\* and the platform is not called; a platform call failing with an APIError
\* is answered with that error's status code, one failing with another error
\* with 500; success is answered 200 (list, suspend), 201 (create), 204
\* (delete).
C25_TokenEndpointStatus ==
    (PortalAnswered /\ TokenRoute) =>
        /\ headerHubEmail \notin DOMAIN portalReq.Header =>
               portalResp.status = StatusBadRequest /\ platformCalls = <<>>
        /\ platformCalls # <<>> =>
               /\ Len(platformCalls) = 1
               /\ (portalEnv.platformErr.isAPIError
                      => portalResp.status = portalEnv.platformErr.StatusCode)
               /\ (~portalEnv.platformErr.isNil /\ ~portalEnv.platformErr.isAPIError
                      => portalResp.status = StatusInternalServerError)
               /\ (portalEnv.platformErr.isNil => portalResp.status = SuccessStatus)

\* Suspending a token the platform does not know: the APIError's 404 is what
\* the client receives.
C25_Witness ==
    /\ PortalAnswered
    /\ portalReq.Route = "/tokens/suspend"
    /\ portalEnv.platformErr = APIError(StatusNotFound, FALSE)
    /\ platformCalls = <<[op |-> "SuspendUserToken", email |-> testEmail,
                          name |-> testTokenName, suspend |-> TRUE]>>
    /\ portalResp.status = StatusNotFound

CallerGroups == HeaderValues(portalReq.Header, headerHubGroups)

\* The caller's groups authorize the gateway-level API of this key.
GatewayAPIAuthorized(k) ==
    /\ k \in DOMAIN portal.Gateway.APIs
    /\ \E i \in 1..Len(CallerGroups) :
           CallerGroups[i] \in portal.Gateway.APIs[k].authorizedGroups

CollectionAuthorized(n) ==
    /\ n \in DOMAIN portal.Gateway.Collections
    /\ \E i \in 1..Len(CallerGroups) :
           CallerGroups[i] \in portal.Gateway.Collections[n].authorizedGroups

ListedAPIs == portalResp.body.list.APIs

ListedCollections == portalResp.body.list.Collections

\* The answer to a request for an API that does not exist.
NotFoundAnswer == [wroteHeader |-> TRUE, status |-> StatusNotFound, header |-> NoHeaders,
                   body |-> NoBody]

\* C26: a gateway-level API the caller's Hub-Groups do not authorize is never
\* disclosed. GET /apis lists exactly the collections and gateway-level APIs
\* authorized for the caller's groups, sorted by name; GET /apis/{api} gives
\* the same 404 answer for an API that does not exist and for one the caller
\* is not authorized for.
C26_UnauthorizedNeverDisclosed ==
    /\ (PortalAnswered /\ portalReq.Route = "/apis") =>
           /\ portalResp.status = StatusOK
           /\ { ListedAPIs[i].SpecLink : i \in 1..Len(ListedAPIs) }
                  = { <<"/apis/", k>> : k \in { k \in DOMAIN portal.Gateway.APIs :
                                                    GatewayAPIAuthorized(k) } }
           /\ { ListedCollections[i].Name : i \in 1..Len(ListedCollections) }
                  = { n \in DOMAIN portal.Gateway.Collections : CollectionAuthorized(n) }
           /\ \A i, j \in 1..Len(ListedAPIs) :
                  i < j => NameRank(ListedAPIs[i].Name) <= NameRank(ListedAPIs[j].Name)
           /\ \A i, j \in 1..Len(ListedCollections) :
                  i < j => NameRank(ListedCollections[i].Name)
                               <= NameRank(ListedCollections[j].Name)
    /\ (PortalAnswered /\ portalReq.Route = "/apis/{api}"
            /\ ~GatewayAPIAuthorized(portalReq.api)) =>
           portalResp = NotFoundAnswer

\* The caller is a supplier, toys@default exists for developers only: the
\* answer is the 404 of an unknown API.
C26_Witness ==
    /\ PortalAnswered
    /\ portalReq.Route = "/apis/{api}"
    /\ portalReq.api = "toys@default"
    /\ "toys@default" \in DOMAIN portal.Gateway.APIs
    /\ portal.Gateway.APIs["toys@default"].authorizedGroups = {"developer"}
    /\ CallerGroups = <<"supplier">>
    /\ portalResp = NotFoundAnswer

====
